---- MODULE Spec2Model ----
(***************************************************************************)
(* LlmImageCreator: the origin-private conversation/image store            *)
(* (src/storage.js) and the generation orchestrator (src/agent.js, last    *)
(* revision of the file, lines 961-1524; src/ui.js regenerate handlers).   *)
(*                                                                         *)
(* Granularity.  JavaScript runs one task at a time; a handler runs up to  *)
(* its next await on real I/O (OPFS or network) and the continuation is a  *)
(* later task.  Promise reactions that follow each other without I/O       *)
(* (.then -> .catch -> .finally) are microtasks of one task and are one    *)
(* action here.  The storage functions that neither read nor hand back     *)
(* control between their effect are one action each (saveConversation,     *)
(* saveSummary, loadConversation); saveImage is two (the directory scan    *)
(* of getNextImageIndex, then the write) because two calls can interleave  *)
(* between them.                                                           *)
(*                                                                         *)
(* Objects.  currentConversation holds the conversation object the global  *)
(* points to.  A closure that captured an entry object (regenerate,        *)
(* enrichment) keeps the index of the entry and a flag `live`: the entry   *)
(* is still that element of the object the global points to.  Objects the  *)
(* global no longer points to are never saved or rendered again, so their  *)
(* contents are not kept.                                                  *)
(***************************************************************************)
EXTENDS Integers, Sequences, FiniteSets, TLC

\* ---------------------------------------------------------------- bounds
MaxTime == 2        \* wall-clock seconds 1..MaxTime
MaxGen == 2         \* submissions that pass validation
MaxRegen == 1       \* regenerate / upscale requests
MaxImages == 2      \* image objects in one response
MaxSaves == 3       \* saveImage calls per conversation in the repository spec
MaxNameLen == 2     \* characters in the name of a child of conversations/
MaxOther == 2       \* children of conversations/ the application did not make
MaxPrefLen == 2     \* characters in a preference value

\* ------------------------------------------------------ program constants
\* null: of an object, of a string, of a number
NULL == [null |-> TRUE]
NULL_TEXT == "null"
NULL_INDEX == 0
GENERATING == "generating"
SYSTEM_PROMPT == "Generate an image according to the instructions of the user."
NEW_CONVERSATION == "New Conversation"
DEFAULT_RESOLUTION == "1K"
UPSCALE_RESOLUTION == "4K"
MAX_RETRIES == 5

Times == 1..MaxTime
Resolutions == {"1K", "2K", "4K"}
Prompts == {"a cat"}
Seeds == {42}
Payloads == {"ok", "bad", "nourl"}
GenIds == 1..MaxGen
RegenIds == 1..MaxRegen

VARIABLES
    now,                  \* Math.floor(Date.now() / 1000)
    convDirs,             \* names of the directories under conversations/
    imageFiles,           \* per directory: the indices i with a file i.png in images/
    conversationJson,     \* per directory: parsed content of conversation.json, or NULL
    summaryJson,          \* per directory: parsed content of summary.json, or NULL
    imageLog,             \* history: per timestamp, the indices saveImage returned, in order
    currentConversation,  \* agent.js global
    conversationHistory,  \* agent.js global
    isGenerating,         \* agent.js global
    generateDisabled,     \* #generate-button.disabled, set by setLoadingState
    selectedModel,        \* agent.js global
    resolutionDropdown,   \* text of #resolution-dropdown, read by getResolution
    displayedError,       \* the error banner in #conversation-area (a render empties the area)
    gens,                 \* the handleGenerate invocations that passed validation
    regens,               \* the regenerate / upscale invocations
    listTitle,            \* per conversation: title request started by the list refresh
    balanceRefreshes,     \* fetchBalance calls in flight
    balanceDisplay,       \* what updateBalanceDisplay last showed
    rejected,             \* history: the isGenerating guard turned a submission away
                          \* during the invocation in flight
    otherChildren,        \* entries under conversations/ that createConversation did not make
    listed,               \* what an awaited listConversations() call returned
    prefFiles,            \* per key: the file preferences/<key>
    prefResult,           \* what an awaited getPreference() call returned
    loaded                \* what an awaited loadConversation() call returned

storeVars == <<convDirs, imageFiles, conversationJson, summaryJson>>
memVars == <<currentConversation, conversationHistory, isGenerating, generateDisabled,
             selectedModel, resolutionDropdown, displayedError>>
taskVars == <<gens, regens, listTitle, balanceRefreshes, balanceDisplay, rejected>>
vars == <<now, convDirs, imageFiles, conversationJson, summaryJson, imageLog,
          currentConversation, conversationHistory, isGenerating, generateDisabled,
          selectedModel, resolutionDropdown, displayedError, gens, regens, listTitle,
          balanceRefreshes, balanceDisplay, rejected,
          otherChildren, listed, prefFiles, prefResult, loaded>>
sideVars == <<otherChildren, listed, prefFiles, prefResult, loaded>>

\* ------------------------------------------------------------- helpers
Max(S) == CHOOSE x \in S : \A y \in S : y <= x

Last(s) == s[Len(s)]

Front(s) == SubSeq(s, 1, Len(s) - 1)

RECURSIVE SumLen(_)
SumLen(es) == IF es = <<>> THEN 0
              ELSE Len(Head(es).response.imageFilenames) + SumLen(Tail(es))

\* ------------------------------------------------------- storage.js
\* getNextImageIndex: largest index among the *.png files of the directory, plus one
GetNextImageIndex(files) == Max(files \cup {0}) + 1

\* String(index): the decimal numeral of the index
FileName(index) == ToString(index)

\* createConversation(): ensures conversations/<now>/ and conversations/<now>/images/
\* (the argument the caller passes is ignored: the function has no parameter)
CreateConversationDirs(dirs, timestamp) == dirs \cup {timestamp}

\* saveConversation: ensureDirectory(convsDir, String(timestamp)), then write the JSON text
SaveConversationDirs(dirs, timestamp) == dirs \cup {timestamp}

\* JSON.stringify / JSON.parse of a conversation: own enumerable properties survive
\* saveConversation, writing the conversation without its last entry
JsonConversationStale(conv) ==
    [timestamp |-> conv.timestamp,
     entries |-> IF conv.entries = <<>> THEN <<>> ELSE Front(conv.entries)]

JsonConversation(conv) == [timestamp |-> conv.timestamp, entries |-> conv.entries]

\* a load that resets the resolutions of every entry
MigrateEntryAlways(e) ==
    [e EXCEPT !.response = [f \in DOMAIN e.response \cup {"imageResolutions"} |->
        IF f = "imageResolutions"
        THEN [k \in 1..Len(e.response.imageFilenames) |-> DEFAULT_RESOLUTION]
        ELSE e.response[f]]]

\* a conversation.json whose text JSON.parse rejects
CORRUPT == [corrupt |-> TRUE]

\* a load whose JSON.parse error reaches the caller
LoadConversationUncaught(timestamp) ==
    IF timestamp \notin convDirs \/ conversationJson[timestamp] = NULL THEN NULL
    ELSE conversationJson[timestamp]

\* loadConversation: null on a missing directory or file and on a text that does
\* not parse; entries that have imageFilenames but no imageResolutions get one
\* "1K" per filename
MigrateEntry(e) ==
    IF "imageResolutions" \notin DOMAIN e.response
    THEN [e EXCEPT !.response = [f \in DOMAIN e.response \cup {"imageResolutions"} |->
              IF f = "imageResolutions"
              THEN [k \in 1..Len(e.response.imageFilenames) |-> DEFAULT_RESOLUTION]
              ELSE e.response[f]]]
    ELSE e

LoadConversation(timestamp) ==
    IF \/ timestamp \notin convDirs
       \/ conversationJson[timestamp] = NULL
       \/ conversationJson[timestamp] = CORRUPT
    THEN NULL
    ELSE [timestamp |-> conversationJson[timestamp].timestamp,
          entries |-> [k \in 1..Len(conversationJson[timestamp].entries) |->
                          MigrateEntry(conversationJson[timestamp].entries[k])]]

\* loadSummary: null on a missing directory or file
LoadSummary(timestamp) ==
    IF timestamp \notin convDirs THEN NULL ELSE summaryJson[timestamp]

\* getImage: the file images/<imageIndex>.png, null when the directory or the
\* file is missing
GetImage(timestamp, imageIndex) ==
    IF timestamp \in convDirs /\ imageIndex \in imageFiles[timestamp] THEN imageIndex
    ELSE NULL_INDEX

\* saveImage after its scan: what the call does with the payload.
\*   "bad" payload: atob throws before any file is touched -> null
\*   storage failure: getFileHandle(create) has made i.png, the write throws -> null
\*   otherwise i.png is written and i is returned
\* saveImage, returning its index without having written the file
SaveImageFilesNothing(files, nextIndex, payload) == files

SaveImageFiles(files, nextIndex, payload) ==
    IF payload = "bad" THEN files ELSE files \cup {nextIndex}

SaveImageResult(nextIndex, payload, storageOk) ==
    IF payload = "bad" \/ ~storageOk THEN NULL_INDEX ELSE nextIndex

EmptyStore ==
    /\ convDirs = {}
    /\ imageFiles = [t \in Times |-> {}]
    /\ conversationJson = [t \in Times |-> NULL]
    /\ summaryJson = [t \in Times |-> NULL]

\* saveSummary: getDirectoryHandle(String(timestamp), {create: true}), then write the JSON text
SaveSummaryDirs(dirs, timestamp) == dirs \cup {timestamp}

\* ---- listConversations (storage.js)
\* names are sequences of characters
DigitChars == <<"0", "1", "2", "3", "4", "5", "6", "7", "8", "9">>
Digits == {DigitChars[k] : k \in 1..Len(DigitChars)}
DigitValue(c) == (CHOOSE k \in 1..Len(DigitChars) : DigitChars[k] = c) - 1

\* String(timestamp)
RECURSIVE DecimalName(_)
DecimalName(n) ==
    IF n < 10 THEN <<DigitChars[n + 1]>>
    ELSE Append(DecimalName(n \div 10), DigitChars[(n % 10) + 1])

\* the result of parseInt on a name that does not start with a digit
NAN == -1

\* parseInt(name, 10) on names without sign or leading blanks: the value of the
\* longest prefix of digits
RECURSIVE ParseDigits(_, _)
ParseDigits(name, acc) ==
    IF name = <<>> \/ Head(name) \notin Digits THEN acc
    ELSE ParseDigits(Tail(name), acc * 10 + DigitValue(Head(name)))

ParseInt(name) ==
    IF name = <<>> \/ Head(name) \notin Digits THEN NAN ELSE ParseDigits(name, 0)

\* the children of conversations/: the directories createConversation and the
\* save functions made, and the others
RootChildren ==
    {[name |-> DecimalName(t), kind |-> "directory"] : t \in convDirs} \cup otherChildren

\* timestamps.sort(function(a, b) { return b - a; }) over the pushed numbers
RECURSIVE SortDescending(_)
SortDescending(children) ==
    IF children = {} THEN <<>>
    ELSE LET c == CHOOSE c \in children :
                     \A d \in children : ParseInt(d.name) <= ParseInt(c.name)
         IN <<ParseInt(c.name)>> \o SortDescending(children \ {c})

\* listConversations: one number per directory whose name parses, largest first
ListConversations ==
    SortDescending({c \in RootChildren : c.kind = "directory" /\ ParseInt(c.name) # NAN})

\* ---- preferences (storage.js)
\* content.trim(): the text without its leading and trailing blanks
RECURSIVE TrimStart(_)
TrimStart(text) ==
    IF text # <<>> /\ Head(text) = " " THEN TrimStart(Tail(text)) ELSE text

RECURSIVE TrimEnd(_)
TrimEnd(text) ==
    IF text # <<>> /\ text[Len(text)] = " " THEN TrimEnd(SubSeq(text, 1, Len(text) - 1))
    ELSE text

Trim(text) == TrimEnd(TrimStart(text))

NoFile == [exists |-> FALSE, content |-> <<>>]

\* savePreference: getFileHandle(key, {create: true}), createWritable, write, close;
\* a failed write leaves what getFileHandle made or found
SavePreferenceFile(file, value, storageOk) ==
    IF storageOk THEN [exists |-> TRUE, content |-> value]
    ELSE IF file.exists THEN file
    ELSE [exists |-> TRUE, content |-> <<>>]

\* a read that hands the stored content back as it is
GetPreferenceVerbatim(file, given, defaultValue) ==
    IF file.exists /\ Len(Trim(file.content)) > 0
    THEN [isNull |-> FALSE, text |-> file.content]
    ELSE IF given THEN [isNull |-> FALSE, text |-> defaultValue]
    ELSE [isNull |-> TRUE, text |-> <<>>]

\* getPreference: the trimmed content when it is not empty, else the default,
\* else null; a missing file lands in the catch block
GetPreference(file, given, defaultValue) ==
    IF file.exists /\ Len(Trim(file.content)) > 0
    THEN [isNull |-> FALSE, text |-> Trim(file.content)]
    ELSE IF given THEN [isNull |-> FALSE, text |-> defaultValue]
    ELSE [isNull |-> TRUE, text |-> <<>>]

\* ------------------------------------------------------- agent.js
DefaultSummary(timestamp) ==
    [title |-> NEW_CONVERSATION, imageCount |-> 0, entryCount |-> 0,
     created |-> timestamp, updated |-> timestamp]

\* a recompute that adds to the stored counts instead of recounting
UpdateConversationSummaryAdding(timestamp, title) ==
    LET conversation == LoadConversation(timestamp)
        summary == IF LoadSummary(timestamp) # NULL THEN LoadSummary(timestamp)
                   ELSE DefaultSummary(timestamp)
    IN IF conversation = NULL THEN NULL
       ELSE [title |-> IF title # NULL_TEXT /\ title # "" THEN title ELSE summary.title,
             imageCount |-> summary.imageCount + SumLen(conversation.entries),
             entryCount |-> summary.entryCount + Len(conversation.entries),
             created |-> IF summary.created # 0 THEN summary.created ELSE timestamp,
             updated |-> now]

\* a recompute that stamps created as it stamps updated
UpdateConversationSummaryRestamping(timestamp, title) ==
    LET conversation == LoadConversation(timestamp)
        summary == IF LoadSummary(timestamp) # NULL THEN LoadSummary(timestamp)
                   ELSE DefaultSummary(timestamp)
    IN IF conversation = NULL THEN NULL
       ELSE [title |-> IF title # NULL_TEXT /\ title # "" THEN title ELSE summary.title,
             imageCount |-> SumLen(conversation.entries),
             entryCount |-> Len(conversation.entries),
             created |-> now,
             updated |-> now]

\* updateConversationSummary: the summary it writes (NULL: conversation missing, nothing written)
UpdateConversationSummary(timestamp, title) ==
    LET conversation == LoadConversation(timestamp)
        summary == IF LoadSummary(timestamp) # NULL THEN LoadSummary(timestamp)
                   ELSE DefaultSummary(timestamp)
    IN IF conversation = NULL THEN NULL
       ELSE [title |-> IF title # NULL_TEXT /\ title # "" THEN title ELSE summary.title,
             imageCount |-> SumLen(conversation.entries),
             entryCount |-> Len(conversation.entries),
             created |-> IF summary.created # 0 THEN summary.created ELSE timestamp,
             updated |-> now]

\* extractImageUrls: the url of every image object that has one
ExtractImageUrls(response) == SelectSeq(response.images, LAMBDA p : p # "nourl")

PlaceholderEntry(prompt, seed, resolution) ==
    [message |-> [systemPrompt |-> SYSTEM_PROMPT, text |-> prompt, seed |-> seed],
     response |-> [text |-> NULL_TEXT, imageFilenames |-> <<GENERATING>>,
                   imageResolutions |-> <<resolution>>,
                   responseData |-> NULL_INDEX, generationData |-> NULL_TEXT]]

\* variant: the resolution is read from the dropdown when the entry is built
CreateConversationEntryLate(prompt, seed, response, imageFilenames, imageConfig) ==
    [message |-> [systemPrompt |-> SYSTEM_PROMPT, text |-> prompt, seed |-> seed],
     response |-> [text |-> response.content, imageFilenames |-> imageFilenames,
                   imageResolutions |-> [k \in 1..Len(imageFilenames) |-> resolutionDropdown],
                   responseData |-> response.id, generationData |-> NULL_TEXT]]

\* variant: a single resolution whatever the number of filenames
CreateConversationEntrySingle(prompt, seed, response, imageFilenames, imageConfig) ==
    [message |-> [systemPrompt |-> SYSTEM_PROMPT, text |-> prompt, seed |-> seed],
     response |-> [text |-> response.content, imageFilenames |-> imageFilenames,
                   imageResolutions |-> <<imageConfig.imageSize>>,
                   responseData |-> response.id, generationData |-> NULL_TEXT]]

\* createConversationEntry: one resolution per saved filename
CreateConversationEntry(prompt, seed, response, imageFilenames, imageConfig) ==
    LET resolution == IF imageConfig.imageSize # "" THEN imageConfig.imageSize
                      ELSE DEFAULT_RESOLUTION
    IN [message |-> [systemPrompt |-> SYSTEM_PROMPT, text |-> prompt, seed |-> seed],
        response |-> [text |-> response.content, imageFilenames |-> imageFilenames,
                      imageResolutions |-> [k \in 1..Len(imageFilenames) |-> resolution],
                      responseData |-> response.id, generationData |-> NULL_TEXT]]

IsPlaceholder(entry) ==
    /\ entry.response.imageFilenames # <<>>
    /\ entry.response.imageFilenames[1] = GENERATING

\* variant: the .catch handler only shows the message
CatchHandlerKeeps(conversation) == conversation

\* the .catch handler of handleGenerate: pop the last entry when it is a placeholder
CatchHandler(conversation) ==
    IF /\ conversation # NULL
       /\ Len(conversation.entries) > 0
       /\ IsPlaceholder(Last(conversation.entries))
    THEN [conversation EXCEPT !.entries = Front(conversation.entries)]
    ELSE conversation

\* variant: no re-entrancy test
ReentrancyGuardOff == FALSE

\* if (isGenerating) return;
ReentrancyGuard == isGenerating

\* the checks of handleGenerate in their order: the message displayed, or NULL
ValidationError(online, apiKey, prompt) ==
    IF ~online THEN "Network unavailable. Please check your connection."
    ELSE IF apiKey = "" THEN "Please enter your API key first"
    ELSE IF prompt = "" THEN "Please enter a prompt"
    ELSE IF selectedModel = NULL_TEXT THEN "Please wait for models to load"
    ELSE NULL_TEXT

ValidationMessages ==
    {"Network unavailable. Please check your connection.",
     "Please enter your API key first", "Please enter a prompt",
     "Please wait for models to load"}

\* variant: isGenerating = true comes before the validation
FlagBeforeValidation(error) == TRUE

\* isGenerating = true comes after every validation return
FlagAfterValidation(error) == IF error = NULL_TEXT THEN TRUE ELSE isGenerating

\* variant: the .finally handler leaves the flag set
FlagKept == TRUE

\* the .finally handler: isGenerating = false, whatever fetchBalance does
FlagAfterFinally == FALSE

NoGen ==
    [pc |-> "none", outcome |-> "none", prompt |-> "", seed |-> 0, resolution |-> "",
     createTs |-> 0, submitTs |-> 0, lenBefore |-> 0, sameObj |-> FALSE,
     phTs |-> 0, phIdx |-> 0, phLive |-> FALSE,
     messages |-> <<>>, response |-> NULL, urls |-> <<>>, ts |-> 0, i |-> 0, nextIndex |-> 0,
     filenames |-> <<>>, failedSaves |-> 0,
     entryIdx |-> 0, entryLive |-> FALSE, savedTs |-> 0, saved |-> 0,
     initPc |-> "none", titlePc |-> "none", updPc |-> "none", listPc |-> "none",
     taskTs |-> 0, enrichPc |-> "none",
     title |-> NULL_TEXT, attempt |-> 0, waits |-> 0, calls |-> 0, failures |-> 0, generationData |-> NULL_TEXT]

\* a settled invocation keeps what its background tasks captured
Settled(g, outcome) ==
    [NoGen EXCEPT !.pc = "done", !.outcome = outcome,
                  !.entryIdx = g.entryIdx, !.entryLive = g.entryLive,
                  !.savedTs = g.savedTs, !.saved = Len(g.filenames)]

NoRegen ==
    [pc |-> "none", kind |-> "none", idx |-> 0, live |-> FALSE, resolution |-> "",
     payload |-> "none", ts |-> 0, nextIndex |-> 0, clickTs |-> 0, imageIdx |-> 0,
     seed |-> 0]

\* nothing beside what the application made, no call answered yet
NotListed == [done |-> FALSE, children |-> {}, timestamps |-> <<>>]
NoAnswer ==
    [done |-> FALSE, key |-> "", given |-> FALSE, defaultValue |-> <<>>, file |-> NoFile,
     isNull |-> TRUE, text |-> <<>>]
PrefKeys == {"apiKey", "defaultResolution"}
NotLoaded == [done |-> FALSE, timestamp |-> 0, dir |-> FALSE, file |-> NULL, result |-> NULL]

SideIdle ==
    /\ otherChildren = {}
    /\ listed = NotListed
    /\ prefFiles = [k \in PrefKeys |-> NoFile]
    /\ prefResult = NoAnswer
    /\ loaded = NotLoaded

Init ==
    /\ SideIdle
    /\ now = 1
    /\ EmptyStore
    /\ imageLog = [t \in Times |-> <<>>]
    /\ currentConversation = NULL
    /\ conversationHistory = <<>>
    /\ isGenerating = FALSE
    /\ generateDisabled = FALSE
    /\ selectedModel = NULL_TEXT
    /\ resolutionDropdown = DEFAULT_RESOLUTION
    /\ displayedError = NULL_TEXT
    /\ gens = [r \in GenIds |-> NoGen]
    /\ regens = [q \in RegenIds |-> NoRegen]
    /\ listTitle = [t \in Times |-> "none"]
    /\ balanceRefreshes = 0
    /\ balanceDisplay = NULL_TEXT
    /\ rejected = FALSE

\* an entry as written before imageResolutions existed
LegacyEntry ==
    [message |-> [systemPrompt |-> SYSTEM_PROMPT, text |-> "a cat", seed |-> 42],
     response |-> [text |-> "A cat.", imageFilenames |-> <<FileName(1)>>,
                   responseData |-> NULL_INDEX, generationData |-> NULL_TEXT]]

\* a store that holds one such conversation, made in an earlier second
LegacyStore ==
    /\ now = MaxTime
    /\ convDirs = {1}
    /\ imageFiles = [t \in Times |-> IF t = 1 THEN {1} ELSE {}]
    /\ conversationJson = [t \in Times |->
          IF t = 1 THEN [timestamp |-> 1, entries |-> <<LegacyEntry>>] ELSE NULL]
    /\ summaryJson = [t \in Times |-> NULL]
    /\ imageLog = [t \in Times |-> IF t = 1 THEN <<1>> ELSE <<>>]

\* the page as loaded: no conversation in view, nothing in flight
FreshPage ==
    /\ currentConversation = NULL
    /\ conversationHistory = <<>>
    /\ isGenerating = FALSE
    /\ generateDisabled = FALSE
    /\ selectedModel = NULL_TEXT
    /\ resolutionDropdown = DEFAULT_RESOLUTION
    /\ displayedError = NULL_TEXT
    /\ regens = [q \in RegenIds |-> NoRegen]
    /\ listTitle = [t \in Times |-> "none"]
    /\ balanceRefreshes = 0
    /\ balanceDisplay = NULL_TEXT
    /\ rejected = FALSE

\* the application starts over that store; the request that made the
\* conversation counts among the MaxGen
InitLegacy ==
    /\ SideIdle
    /\ LegacyStore
    /\ FreshPage
    /\ gens = [r \in GenIds |->
          IF r = 1 THEN [NoGen EXCEPT !.pc = "done", !.outcome = "success"] ELSE NoGen]

\* the application starts over that store in a later session, with all MaxGen
\* requests still to come
InitReturning ==
    /\ SideIdle
    /\ LegacyStore
    /\ FreshPage
    /\ gens = [r \in GenIds |-> NoGen]

\* captured entry objects stop being elements of the current conversation
DetachGens(g, idxs) ==
    [r \in GenIds |-> IF g[r].entryIdx \in idxs THEN [g[r] EXCEPT !.entryLive = FALSE]
                      ELSE g[r]]

DetachRegens(rg, idxs) ==
    [q \in RegenIds |-> IF rg[q].idx \in idxs THEN [rg[q] EXCEPT !.live = FALSE]
                        ELSE rg[q]]

ForgetObject(g) ==
    [r \in GenIds |-> [g[r] EXCEPT !.entryLive = FALSE, !.sameObj = FALSE, !.phLive = FALSE]]

\* ----------------------------------------------------- environment
\* Date.now() is read only to stamp a conversation, so the clock is advanced only
\* past a second that has been used
Tick ==
    /\ now < MaxTime
    /\ \/ now \in convDirs
       \/ currentConversation # NULL /\ currentConversation.timestamp = now
    /\ now' = now + 1
    /\ UNCHANGED <<sideVars, storeVars, imageLog, memVars, taskVars>>

\* the model dropdown: selectedModel is set once the models are loaded
SelectModel ==
    /\ selectedModel = NULL_TEXT
    /\ selectedModel' = "model"
    /\ UNCHANGED <<sideVars, now, storeVars, imageLog, currentConversation, conversationHistory,
                   isGenerating, generateDisabled, resolutionDropdown, displayedError, taskVars>>

\* the resolution dropdown item click
SetResolution(resolution) ==
    /\ resolution # resolutionDropdown
    /\ resolutionDropdown' = resolution
    /\ UNCHANGED <<sideVars, now, storeVars, imageLog, currentConversation, conversationHistory,
                   isGenerating, generateDisabled, selectedModel, displayedError, taskVars>>


\* --------------------------------------------- handleGenerate (agent.js)
\* .catch then .finally: show the message, pop the placeholder and render (which
\* empties the area), clear the flag, issue fetchBalance.
\* g is the gens function after the step's earlier updates.
SettleFailed(r, g, message, outcome) ==
    LET conversation == CatchHandler(currentConversation)
        popped == IF conversation # currentConversation
                  THEN {Len(currentConversation.entries)} ELSE {}
    IN /\ currentConversation' = conversation
       /\ displayedError' = IF popped # {} THEN NULL_TEXT ELSE message
       /\ isGenerating' = FlagAfterFinally
       /\ generateDisabled' = FALSE
       /\ balanceRefreshes' = balanceRefreshes + 1
       /\ rejected' = FALSE
       /\ gens' = [DetachGens(g, popped) EXCEPT ![r] = Settled(g[r], outcome)]
       /\ regens' = DetachRegens(regens, popped)

\* saveImagesToConversation has returned: build the entry, overwrite the last
\* element of the current conversation, saveConversation
Finalize(r, g, imageFilenames) ==
    IF currentConversation = NULL
    THEN /\ SettleFailed(r, g, "TypeError", "persistThrew")
         /\ UNCHANGED <<convDirs, conversationJson>>
    ELSE LET placeholderIndex == Len(currentConversation.entries)
             entry == CreateConversationEntry(g[r].prompt, g[r].seed, g[r].response,
                          imageFilenames, [imageSize |-> g[r].resolution])
             conversation == IF placeholderIndex >= 1
                             THEN [currentConversation EXCEPT
                                      !.entries[placeholderIndex] = entry]
                             ELSE currentConversation
         IN /\ currentConversation' = conversation
            /\ convDirs' = SaveConversationDirs(convDirs, conversation.timestamp)
            /\ conversationJson' = [conversationJson EXCEPT
                   ![conversation.timestamp] = JsonConversation(conversation)]
            /\ gens' = [DetachGens(g, {placeholderIndex}) EXCEPT
                   ![r].pc = "saved", ![r].filenames = imageFilenames,
                   ![r].entryIdx = placeholderIndex,
                   ![r].entryLive = (placeholderIndex >= 1),
                   ![r].savedTs = conversation.timestamp]
            /\ regens' = DetachRegens(regens, {placeholderIndex})
            /\ UNCHANGED <<displayedError, isGenerating, generateDisabled, balanceRefreshes, rejected>>

\* the click listener of #generate-button; a disabled button delivers no click
HandleGenerate(online, apiKey, prompt, seed) ==
    /\ ~generateDisabled
    /\ IF ReentrancyGuard
       THEN /\ rejected' = TRUE
            /\ UNCHANGED <<sideVars, now, storeVars, imageLog, memVars, gens, regens, listTitle,
                           balanceRefreshes, balanceDisplay>>
       ELSE LET error == ValidationError(online, apiKey, prompt)
            IN /\ isGenerating' = FlagAfterValidation(error)
               /\ generateDisabled' = IF error = NULL_TEXT THEN TRUE ELSE generateDisabled
               /\ IF error # NULL_TEXT
                  THEN /\ displayedError' = error
                       /\ UNCHANGED <<currentConversation, conversationHistory, gens>>
                  ELSE \E r \in GenIds :
                       /\ gens[r].pc = "none"
                       /\ \A r2 \in GenIds : r2 < r => gens[r2].pc # "none"
                       /\ currentConversation' =
                             IF currentConversation = NULL
                             THEN [timestamp |-> now, entries |-> <<>>]
                             ELSE currentConversation
                       /\ conversationHistory' =
                             Append(conversationHistory, [role |-> "user", content |-> prompt])
                       /\ gens' = [gens EXCEPT ![r] =
                             [NoGen EXCEPT !.pc = "creating", !.prompt = prompt, !.seed = seed,
                                           !.resolution = resolutionDropdown,
                                           !.createTs = now, !.sameObj = TRUE,
                                           !.submitTs =
                                               IF currentConversation = NULL THEN now
                                               ELSE currentConversation.timestamp,
                                           !.lenBefore = IF currentConversation = NULL THEN 0
                                                         ELSE Len(currentConversation.entries)]]
                       /\ UNCHANGED displayedError
               /\ UNCHANGED <<sideVars, now, storeVars, imageLog, selectedModel, resolutionDropdown,
                              regens, listTitle, balanceRefreshes, balanceDisplay, rejected>>

\* generateImage: the messages of the request body: the system prompt, every
\* message of the conversationHistory it is given, then the prompt as a user message
GenerateImageMessages(systemPrompt, history, prompt) ==
    <<[role |-> "system", content |-> systemPrompt]>> \o history \o
    <<[role |-> "user", content |-> prompt]>>

\* createConversation() resolves; the placeholder is pushed and rendered, and
\* generateImage is called
CreateConversationDone(r, storageOk) ==
    /\ gens[r].pc = "creating"
    /\ convDirs' = IF storageOk THEN CreateConversationDirs(convDirs, gens[r].createTs)
                   ELSE convDirs
    /\ IF currentConversation = NULL
       THEN SettleFailed(r, gens, "TypeError", "pushThrew")
       ELSE /\ currentConversation' = [currentConversation EXCEPT !.entries =
                   Append(@, PlaceholderEntry(gens[r].prompt, gens[r].seed,
                                              gens[r].resolution))]
            /\ displayedError' = NULL_TEXT
            /\ gens' = [gens EXCEPT ![r].pc = "remote",
                                    ![r].messages =
                                        GenerateImageMessages(SYSTEM_PROMPT, conversationHistory,
                                                              gens[r].prompt),
                                    ![r].phTs = currentConversation.timestamp,
                                    ![r].phIdx = Len(currentConversation.entries) + 1,
                                    ![r].phLive = TRUE]
            /\ UNCHANGED <<isGenerating, generateDisabled, balanceRefreshes, regens, rejected>>
    /\ UNCHANGED <<sideVars, now, imageFiles, conversationJson, summaryJson, imageLog,
                   conversationHistory, selectedModel, resolutionDropdown, listTitle,
                   balanceDisplay>>

\* generateImage rejects
GenerateImageFailed(r) ==
    /\ gens[r].pc = "remote"
    /\ SettleFailed(r, gens, "Failed to generate image", "remoteFailed")
    /\ UNCHANGED <<sideVars, now, storeVars, imageLog, conversationHistory, selectedModel,
                   resolutionDropdown, listTitle, balanceDisplay>>

\* generateImage resolves with a response that has a choice and at least one image object
GenerateImageDone(r, content, images) ==
    /\ gens[r].pc = "remote"
    /\ conversationHistory' = Append(conversationHistory,
           [role |-> "assistant",
            content |-> IF content # NULL_TEXT THEN content ELSE "Image generated"])
    /\ LET response == [id |-> r, content |-> content, images |-> images]
           urls == ExtractImageUrls(response)
           g == [gens EXCEPT ![r].response = response, ![r].urls = urls]
       IN IF currentConversation = NULL
          THEN /\ SettleFailed(r, g, "TypeError", "persistThrew")
               /\ UNCHANGED <<convDirs, conversationJson>>
          ELSE IF urls = <<>>
          THEN Finalize(r, [g EXCEPT ![r].ts = currentConversation.timestamp], <<>>)
          ELSE /\ gens' = [g EXCEPT ![r].pc = "scan", ![r].i = 1,
                                    ![r].ts = currentConversation.timestamp]
               /\ UNCHANGED <<currentConversation, displayedError, isGenerating, generateDisabled,
                              balanceRefreshes, regens, convDirs, conversationJson,
                              rejected>>
    /\ UNCHANGED <<sideVars, now, imageFiles, summaryJson, imageLog, selectedModel,
                   resolutionDropdown, listTitle, balanceDisplay>>

\* saveImage up to getNextImageIndex; a missing conversation directory makes it return null
GenSaveImageScan(r) ==
    /\ gens[r].pc = "scan"
    /\ IF gens[r].ts \in convDirs
       THEN /\ gens' = [gens EXCEPT ![r].pc = "write",
                           ![r].nextIndex = GetNextImageIndex(imageFiles[gens[r].ts])]
            /\ UNCHANGED <<currentConversation, displayedError, isGenerating, generateDisabled,
                           balanceRefreshes, regens, convDirs, conversationJson, rejected>>
       ELSE LET g == [gens EXCEPT ![r].failedSaves = @ + 1, ![r].i = @ + 1]
            IN IF gens[r].i = Len(gens[r].urls)
               THEN Finalize(r, g, gens[r].filenames)
               ELSE /\ gens' = g
                    /\ UNCHANGED <<currentConversation, displayedError, isGenerating, generateDisabled,
                                   balanceRefreshes, regens, convDirs, conversationJson,
                                   rejected>>
    /\ UNCHANGED <<sideVars, now, imageFiles, summaryJson, imageLog, conversationHistory,
                   selectedModel, resolutionDropdown, listTitle, balanceDisplay>>

\* saveImage from atob to return; after the last payload the entry is finalized
GenSaveImageWrite(r, storageOk) ==
    /\ gens[r].pc = "write"
    /\ LET payload == gens[r].urls[gens[r].i]
           index == SaveImageResult(gens[r].nextIndex, payload, storageOk)
           filenames == IF index # NULL_INDEX THEN Append(gens[r].filenames, FileName(index))
                        ELSE gens[r].filenames
           g == [gens EXCEPT ![r].i = @ + 1, ![r].filenames = filenames,
                             ![r].failedSaves = IF index = NULL_INDEX THEN @ + 1 ELSE @,
                             ![r].pc = "scan"]
       IN /\ imageFiles' = [imageFiles EXCEPT ![gens[r].ts] =
                               SaveImageFiles(@, gens[r].nextIndex, payload)]
          /\ imageLog' = IF index # NULL_INDEX
                         THEN [imageLog EXCEPT ![gens[r].ts] = Append(@, index)]
                         ELSE imageLog
          /\ IF gens[r].i = Len(gens[r].urls)
             THEN Finalize(r, g, filenames)
             ELSE /\ gens' = g
                  /\ UNCHANGED <<currentConversation, displayedError, isGenerating, generateDisabled,
                                 balanceRefreshes, regens, convDirs, conversationJson,
                                 rejected>>
    /\ UNCHANGED <<sideVars, now, summaryJson, conversationHistory, selectedModel,
                   resolutionDropdown, listTitle, balanceDisplay>>

\* saveConversation has resolved: render, start the summary and enrichment
\* tasks, then .finally
AfterSave(r) ==
    /\ gens[r].pc = "saved"
    /\ IF currentConversation = NULL
       THEN SettleFailed(r, gens, "TypeError", "persistThrew")
       ELSE /\ gens' = [gens EXCEPT ![r] =
                   IF Len(currentConversation.entries) = 1
                   THEN [Settled(@, "success") EXCEPT
                            !.initPc = "pending", !.titlePc = "pending",
                            !.taskTs = currentConversation.timestamp,
                            !.enrichPc = "polling"]
                   ELSE [Settled(@, "success") EXCEPT
                            !.updPc = "pending",
                            !.taskTs = currentConversation.timestamp,
                            !.enrichPc = "polling"]]
            /\ displayedError' = NULL_TEXT
            /\ isGenerating' = FlagAfterFinally
            /\ generateDisabled' = FALSE
            /\ balanceRefreshes' = balanceRefreshes + 1
            /\ rejected' = FALSE
            /\ UNCHANGED <<currentConversation, regens>>
    /\ UNCHANGED <<sideVars, now, storeVars, imageLog, conversationHistory, selectedModel,
                   resolutionDropdown, listTitle, balanceDisplay>>

\* fetchBalance settles: the balance, or the "unavailable" warning
BalanceDone(ok) ==
    /\ balanceRefreshes > 0
    /\ balanceRefreshes' = balanceRefreshes - 1
    /\ balanceDisplay' = IF ok THEN "balance" ELSE "Balance unavailable"
    /\ UNCHANGED <<sideVars, now, storeVars, imageLog, memVars, gens, regens, listTitle, rejected>>

\* ------------------------------------ summary reconciliation (agent.js, ui.js)
\* saveSummary, with the data put into conversation.json
SaveSummaryFilesOverRecord(files, summaryData) == [files EXCEPT !.conversation = summaryData]

\* saveSummary: of the two json files of the conversation directory, summary.json
\* is the one written
SaveSummaryFiles(files, summaryData) == [files EXCEPT !.summary = summaryData]

\* saveSummary(timestamp, summaryData)
SaveSummary(timestamp, summaryData) ==
    LET files == SaveSummaryFiles([conversation |-> conversationJson[timestamp],
                                   summary |-> summaryJson[timestamp]], summaryData)
    IN /\ convDirs' = SaveSummaryDirs(convDirs, timestamp)
       /\ conversationJson' = [conversationJson EXCEPT ![timestamp] = files.conversation]
       /\ summaryJson' = [summaryJson EXCEPT ![timestamp] = files.summary]

\* initializeConversationSummary writes the zero summary; then updateConversationList()
InitSummaryDone(r) ==
    /\ gens[r].initPc = "pending"
    /\ SaveSummary(gens[r].taskTs, DefaultSummary(gens[r].taskTs))
    /\ gens' = [gens EXCEPT ![r].initPc = "done", ![r].listPc = "pending"]
    /\ UNCHANGED <<sideVars, now, imageFiles, imageLog, memVars, regens, listTitle,
                   balanceRefreshes, balanceDisplay, rejected>>

\* the summary write of updateConversationSummary(timestamp, title)
WriteSummary(timestamp, title) ==
    LET summaryData == UpdateConversationSummary(timestamp, title)
    IN IF summaryData = NULL THEN UNCHANGED <<convDirs, conversationJson, summaryJson>>
       ELSE SaveSummary(timestamp, summaryData)

\* handleGenerate: the test on the title, as one that lets every title through
UsableTitleAny(title) == TRUE

\* handleGenerate: `title && title !== "New Conversation"`
UsableTitle(title) == title # "" /\ title # NEW_CONVERSATION

\* generateConversationTitle(prompt) resolves ("" on any failure); a usable title
\* goes to updateConversationSummary(currentConversation.timestamp, title)
TitleDone(r, title) ==
    /\ gens[r].titlePc = "pending"
    /\ gens' = [gens EXCEPT ![r].titlePc = "done", ![r].title = title]
    /\ IF UsableTitle(title) /\ currentConversation # NULL
       THEN WriteSummary(currentConversation.timestamp, title)
       ELSE UNCHANGED <<convDirs, conversationJson, summaryJson>>
    /\ UNCHANGED <<sideVars, now, imageFiles, imageLog, memVars, regens, listTitle,
                   balanceRefreshes, balanceDisplay, rejected>>

\* updateConversationSummary(timestamp) of a later turn: recount and save
UpdateSummaryDone(r) ==
    /\ gens[r].updPc = "pending"
    /\ WriteSummary(gens[r].taskTs, NULL_TEXT)
    /\ gens' = [gens EXCEPT ![r].updPc = "done"]
    /\ UNCHANGED <<sideVars, now, imageFiles, imageLog, memVars, regens, listTitle,
                   balanceRefreshes, balanceDisplay, rejected>>

\* createConversationItem: a listed conversation whose summary still has the
\* placeholder title gets a title request
NeedsTitle(timestamp) ==
    LET conversation == LoadConversation(timestamp)
        summary == IF LoadSummary(timestamp) # NULL THEN LoadSummary(timestamp)
                   ELSE DefaultSummary(timestamp)
    IN /\ conversation # NULL
       /\ Len(conversation.entries) > 0
       /\ summary.title = NEW_CONVERSATION
       /\ conversation.entries[1].message.text # ""

\* updateConversationList: listConversations, populateConversationList
ListRefresh(r) ==
    /\ gens[r].listPc = "pending"
    /\ listTitle' = [t \in Times |-> IF t \in convDirs /\ NeedsTitle(t) THEN "pending"
                                     ELSE listTitle[t]]
    /\ gens' = [gens EXCEPT ![r].listPc = "done"]
    /\ UNCHANGED <<sideVars, now, storeVars, imageLog, memVars, regens,
                   balanceRefreshes, balanceDisplay, rejected>>

\* the title request of a list item resolves; a non-empty title is written by
\* updateConversationSummary(timestamp, newTitle)
ListTitleDone(timestamp, title) ==
    /\ listTitle[timestamp] = "pending"
    /\ listTitle' = [listTitle EXCEPT ![timestamp] = "none"]
    /\ IF title # "" THEN WriteSummary(timestamp, title)
       ELSE UNCHANGED <<convDirs, conversationJson, summaryJson>>
    /\ UNCHANGED <<sideVars, now, imageFiles, imageLog, memVars, gens, regens,
                   balanceRefreshes, balanceDisplay, rejected>>

\* ------------------------------------------------- enrichment (agent.js)
\* fetchGenerationDataWithRetry: the loop test, as `attempt <= maxRetries`
LoopContinuesInclusive(attempt, maxRetries) == attempt <= maxRetries

\* fetchGenerationDataWithRetry: the loop test `attempt < maxRetries`
LoopContinues(attempt, maxRetries) == attempt < maxRetries

\* the 200 ms timer of an attempt fires and getGenerationInfo is called; waits,
\* calls and failures count the timers, the calls and the calls that gave nothing
PollDelayDone(r) ==
    /\ gens[r].enrichPc = "polling"
    /\ gens' = [gens EXCEPT ![r].enrichPc = "calling", ![r].waits = @ + 1,
                            ![r].calls = @ + 1]
    /\ UNCHANGED <<sideVars, now, storeVars, imageLog, memVars, regens, listTitle,
                   balanceRefreshes, balanceDisplay, rejected>>

\* getGenerationInfo settles with a payload ("usage"), a falsy body ("empty") or a
\* rejection ("throw"); the loop returns, or goes on to its next attempt
GetGenerationInfoDone(r, outcome) ==
    /\ gens[r].enrichPc = "calling"
    /\ gens' = [gens EXCEPT ![r] =
           IF outcome = "usage"
           THEN [@ EXCEPT !.enrichPc = "returned", !.generationData = "usage"]
           ELSE IF outcome = "throw" /\ @.attempt = MAX_RETRIES - 1
           THEN [@ EXCEPT !.enrichPc = "returned", !.generationData = NULL_TEXT,
                          !.failures = @ + 1]
           ELSE IF LoopContinues(@.attempt + 1, MAX_RETRIES)
           THEN [@ EXCEPT !.enrichPc = "polling", !.attempt = @ + 1, !.failures = @ + 1]
           ELSE [@ EXCEPT !.enrichPc = "returned", !.generationData = NULL_TEXT,
                          !.attempt = @ + 1, !.failures = @ + 1]]
    /\ UNCHANGED <<sideVars, now, storeVars, imageLog, memVars, regens, listTitle,
                   balanceRefreshes, balanceDisplay, rejected>>

\* fetchGenerationDataWithRetry has returned generationData; a payload is attached
\* to the captured entry and the current conversation is saved
EnrichDone(r, generationData) ==
    /\ gens[r].enrichPc = "returned"
    /\ generationData = gens[r].generationData
    /\ gens' = [gens EXCEPT ![r].enrichPc = "done", ![r].attempt = 0, ![r].waits = 0,
                            ![r].calls = 0, ![r].failures = 0]
    /\ IF generationData = NULL_TEXT \/ currentConversation = NULL
       THEN UNCHANGED <<currentConversation, convDirs, conversationJson>>
       ELSE LET conversation ==
                IF gens[r].entryLive
                THEN [currentConversation EXCEPT
                        !.entries[gens[r].entryIdx].response.generationData = generationData]
                ELSE currentConversation
            IN /\ currentConversation' = conversation
               /\ convDirs' = SaveConversationDirs(convDirs, conversation.timestamp)
               /\ conversationJson' = [conversationJson EXCEPT
                      ![conversation.timestamp] = JsonConversation(conversation)]
    /\ UNCHANGED <<sideVars, now, imageFiles, summaryJson, imageLog, conversationHistory, isGenerating, generateDisabled,
                   selectedModel, resolutionDropdown, displayedError, regens, listTitle,
                   balanceRefreshes, balanceDisplay, rejected>>

\* ------------------------------------------------ regenerate (ui.js)
\* the regenerate handlers, all sending the fresh seed
RegenerateRequestFreshSeed(kind, entry, imageIndex, newSeed) ==
    [imageSize |-> IF kind = "upscale" THEN UPSCALE_RESOLUTION
                   ELSE entry.response.imageResolutions[imageIndex],
     seed |-> newSeed]

\* imageConfig.imageSize and the seed passed to generateImage:
\* handleRegenerateWithNewSeed keeps the image's resolution and draws a seed,
\* handleRegenerateLarger asks for "4K" with entry.message.seed
RegenerateRequest(kind, entry, imageIndex, newSeed) ==
    [imageSize |-> IF kind = "upscale" THEN UPSCALE_RESOLUTION
                   ELSE entry.response.imageResolutions[imageIndex],
     seed |-> IF kind = "upscale" THEN entry.message.seed ELSE newSeed]

\* handleRegenerateWithNewSeed / handleRegenerateLarger on a rendered image;
\* handleRegenerateLarger returns at once on an image that is "4K" already
HandleRegenerate(q, kind, entryIndex, imageIndex, apiKey, newSeed) ==
    /\ regens[q].pc = "none"
    /\ \A q2 \in RegenIds : q2 < q => regens[q2].pc # "none"
    /\ currentConversation # NULL
    /\ entryIndex \in 1..Len(currentConversation.entries)
    \* the buttons are those of the last render: an entry finalized in memory is
    \* still shown as its placeholder until the render that follows saveConversation
    /\ ~\E r \in GenIds : /\ gens[r].pc = "saved"
                          /\ gens[r].entryLive
                          /\ gens[r].entryIdx = entryIndex
    /\ LET entry == currentConversation.entries[entryIndex]
       IN /\ ~IsPlaceholder(entry)
          /\ imageIndex \in 1..Len(entry.response.imageFilenames)
          /\ imageIndex \in 1..Len(entry.response.imageResolutions)
          /\ apiKey # ""
          /\ IF kind = "upscale" /\
                entry.response.imageResolutions[imageIndex] = UPSCALE_RESOLUTION
             THEN /\ regens' = [regens EXCEPT ![q] =
                        [NoRegen EXCEPT !.pc = "done", !.kind = "declined"]]
                  /\ UNCHANGED generateDisabled
             ELSE /\ regens' = [regens EXCEPT ![q] =
                        [NoRegen EXCEPT
                           !.pc = "remote", !.kind = kind, !.idx = entryIndex,
                           !.live = TRUE, !.imageIdx = imageIndex,
                           !.clickTs = currentConversation.timestamp,
                           !.resolution =
                               RegenerateRequest(kind, entry, imageIndex, newSeed).imageSize,
                           !.seed = RegenerateRequest(kind, entry, imageIndex, newSeed).seed]]
                  /\ generateDisabled' = TRUE
    /\ UNCHANGED <<sideVars, now, storeVars, imageLog, currentConversation, conversationHistory,
                   isGenerating, selectedModel, resolutionDropdown, displayedError, gens,
                   listTitle, balanceRefreshes, balanceDisplay, rejected>>

RegenDone == [NoRegen EXCEPT !.pc = "done"]

RegenerateFailed(q) ==
    /\ regens[q].pc = "remote"
    /\ regens' = [regens EXCEPT ![q] = RegenDone]
    /\ displayedError' = "Failed to generate image"
    /\ generateDisabled' = FALSE
    /\ UNCHANGED <<sideVars, now, storeVars, imageLog, currentConversation, conversationHistory,
                   isGenerating, selectedModel, resolutionDropdown, gens, listTitle,
                   balanceRefreshes, balanceDisplay, rejected>>

\* the response arrives; saveImage(currentConversation.timestamp, urls[0]) is called
RegenerateDone(q, payload) ==
    /\ regens[q].pc = "remote"
    /\ IF payload = "nourl"
       THEN /\ regens' = [regens EXCEPT ![q] = RegenDone]
            /\ generateDisabled' = FALSE
            /\ UNCHANGED displayedError
       ELSE IF currentConversation = NULL
       THEN /\ regens' = [regens EXCEPT ![q] = RegenDone]
            /\ generateDisabled' = FALSE
            /\ displayedError' = "TypeError"
       ELSE /\ regens' = [regens EXCEPT ![q].pc = "scan", ![q].payload = payload,
                             ![q].ts = currentConversation.timestamp]
            /\ UNCHANGED <<displayedError, generateDisabled>>
    /\ UNCHANGED <<sideVars, now, storeVars, imageLog, currentConversation, conversationHistory,
                   isGenerating, selectedModel, resolutionDropdown, gens, listTitle,
                   balanceRefreshes, balanceDisplay, rejected>>

RegenSaveImageScan(q) ==
    /\ regens[q].pc = "scan"
    /\ regens' = [regens EXCEPT ![q] =
           IF regens[q].ts \in convDirs
           THEN [@ EXCEPT !.pc = "write", !.nextIndex = GetNextImageIndex(imageFiles[regens[q].ts])]
           ELSE RegenDone]
    /\ generateDisabled' = IF regens[q].ts \in convDirs THEN generateDisabled ELSE FALSE
    /\ UNCHANGED <<sideVars, now, storeVars, imageLog, currentConversation, conversationHistory,
                   isGenerating, selectedModel, resolutionDropdown, displayedError, gens,
                   listTitle, balanceRefreshes, balanceDisplay, rejected>>

\* saveImage returns; a saved image is appended to the captured entry, the
\* current conversation is saved and rendered
RegenSaveImageWrite(q, storageOk) ==
    /\ regens[q].pc = "write"
    /\ LET index == SaveImageResult(regens[q].nextIndex, regens[q].payload, storageOk)
       IN /\ imageFiles' = [imageFiles EXCEPT ![regens[q].ts] =
                               SaveImageFiles(@, regens[q].nextIndex, regens[q].payload)]
          /\ imageLog' = IF index # NULL_INDEX
                         THEN [imageLog EXCEPT ![regens[q].ts] = Append(@, index)]
                         ELSE imageLog
          /\ regens' = [regens EXCEPT ![q] = RegenDone]
          /\ generateDisabled' = FALSE
          /\ IF index = NULL_INDEX
             THEN UNCHANGED <<currentConversation, convDirs, conversationJson, displayedError>>
             ELSE IF currentConversation = NULL
             THEN /\ displayedError' = "TypeError"
                  /\ UNCHANGED <<currentConversation, convDirs, conversationJson>>
             ELSE LET conversation ==
                      IF regens[q].live
                      THEN [currentConversation EXCEPT
                              !.entries[regens[q].idx].response.imageFilenames =
                                  Append(@, FileName(index)),
                              !.entries[regens[q].idx].response.imageResolutions =
                                  Append(@, regens[q].resolution)]
                      ELSE currentConversation
                  IN /\ currentConversation' = conversation
                     /\ convDirs' = SaveConversationDirs(convDirs, conversation.timestamp)
                     /\ conversationJson' = [conversationJson EXCEPT
                            ![conversation.timestamp] = JsonConversation(conversation)]
                     /\ displayedError' = NULL_TEXT
    /\ UNCHANGED <<sideVars, now, summaryJson, conversationHistory, isGenerating, selectedModel,
                   resolutionDropdown, gens, listTitle, balanceRefreshes, balanceDisplay,
                   rejected>>

\* ------------------------------------------------ conversation list (ui.js)
HandleNewConversation ==
    /\ currentConversation' = NULL
    /\ conversationHistory' = <<>>
    /\ displayedError' = NULL_TEXT
    /\ gens' = ForgetObject(gens)
    /\ regens' = [q \in RegenIds |-> [regens[q] EXCEPT !.live = FALSE]]
    /\ UNCHANGED <<sideVars, now, storeVars, imageLog, isGenerating, generateDisabled, selectedModel, resolutionDropdown,
                   listTitle, balanceRefreshes, balanceDisplay, rejected>>

RECURSIVE HistoryOf(_)
HistoryOf(entries) ==
    IF entries = <<>> THEN <<>>
    ELSE <<[role |-> "user", content |-> Head(entries).message.text]>>
         \o (IF Head(entries).response.text # NULL_TEXT
             THEN <<[role |-> "assistant", content |-> Head(entries).response.text]>>
             ELSE <<>>)
         \o HistoryOf(Tail(entries))

\* a click on a list item (the list shows conversations that have entries)
LoadConversationIntoView(timestamp) ==
    /\ LoadConversation(timestamp) # NULL
    /\ Len(LoadConversation(timestamp).entries) > 0
    /\ currentConversation' = LoadConversation(timestamp)
    /\ conversationHistory' = HistoryOf(LoadConversation(timestamp).entries)
    /\ displayedError' = NULL_TEXT
    /\ gens' = ForgetObject(gens)
    /\ regens' = [q \in RegenIds |-> [regens[q] EXCEPT !.live = FALSE]]
    /\ UNCHANGED <<sideVars, now, storeVars, imageLog, isGenerating, generateDisabled, selectedModel, resolutionDropdown,
                   listTitle, balanceRefreshes, balanceDisplay, rejected>>

\* ---------------------------------------------- the repository API (storage.js)
\* createConversation(): the directory is named by the current second
CreateConversation(storageOk) ==
    /\ convDirs' = IF storageOk THEN CreateConversationDirs(convDirs, now) ELSE convDirs
    /\ UNCHANGED <<sideVars, now, imageFiles, conversationJson, summaryJson, imageLog, memVars, taskVars>>

\* an awaited saveImage(timestamp, imageData) call
SaveImage(timestamp, payload, storageOk) ==
    /\ Len(imageLog[timestamp]) < MaxSaves
    /\ GetNextImageIndex(imageFiles[timestamp]) <= MaxSaves
    /\ timestamp \in convDirs
    /\ LET nextIndex == GetNextImageIndex(imageFiles[timestamp])
           index == SaveImageResult(nextIndex, payload, storageOk)
       IN /\ imageFiles' = [imageFiles EXCEPT ![timestamp] = SaveImageFiles(@, nextIndex, payload)]
          /\ imageLog' = IF index # NULL_INDEX
                         THEN [imageLog EXCEPT ![timestamp] = Append(@, index)]
                         ELSE imageLog
    /\ UNCHANGED <<sideVars, now, convDirs, conversationJson, summaryJson, memVars, taskVars>>

\* deleteImagesForConversation(timestamp): every *.png entry is removed
DeleteImagesForConversation(timestamp) ==
    /\ timestamp \in convDirs
    /\ imageFiles' = [imageFiles EXCEPT ![timestamp] = {}]
    /\ UNCHANGED <<sideVars, now, convDirs, conversationJson, summaryJson, imageLog, memVars, taskVars>>

\* deleteConversation, as a removal of every child of conversations/
DeleteConversationAll(timestamp) ==
    /\ timestamp \in convDirs
    /\ convDirs' = {}
    /\ imageFiles' = [t \in Times |-> {}]
    /\ conversationJson' = [t \in Times |-> NULL]
    /\ summaryJson' = [t \in Times |-> NULL]
    /\ imageLog' = [t \in Times |-> <<>>]
    /\ UNCHANGED <<sideVars, now, memVars, taskVars>>

\* deleteConversation(timestamp): removeEntry(…, recursive)
DeleteConversation(timestamp) ==
    /\ timestamp \in convDirs
    /\ convDirs' = convDirs \ {timestamp}
    /\ imageFiles' = [imageFiles EXCEPT ![timestamp] = {}]
    /\ conversationJson' = [conversationJson EXCEPT ![timestamp] = NULL]
    /\ summaryJson' = [summaryJson EXCEPT ![timestamp] = NULL]
    /\ imageLog' = [imageLog EXCEPT ![timestamp] = <<>>]
    /\ UNCHANGED <<sideVars, now, memVars, taskVars>>

\* an awaited listConversations() call
ListConversationsCall ==
    /\ listed' = [done |-> TRUE, children |-> RootChildren, timestamps |-> ListConversations]
    /\ UNCHANGED <<otherChildren, prefFiles, prefResult, loaded, now, storeVars, imageLog, memVars,
                   taskVars>>

\* an awaited loadConversation(timestamp) call
LoadConversationCall(timestamp) ==
    /\ loaded' = [done |-> TRUE, timestamp |-> timestamp, dir |-> timestamp \in convDirs,
                  file |-> conversationJson[timestamp], result |-> LoadConversation(timestamp)]
    /\ UNCHANGED <<otherChildren, listed, prefFiles, prefResult, now, storeVars, imageLog,
                   memVars, taskVars>>

\* an awaited savePreference(key, value) call
SavePreference(key, value, storageOk) ==
    /\ prefFiles' = [prefFiles EXCEPT ![key] = SavePreferenceFile(@, value, storageOk)]
    /\ UNCHANGED <<otherChildren, listed, prefResult, loaded, now, storeVars, imageLog, memVars,
                   taskVars>>

\* an awaited deletePreference(key) call: removeEntry, a missing file is logged
DeletePreference(key) ==
    /\ prefFiles' = [prefFiles EXCEPT ![key] = NoFile]
    /\ UNCHANGED <<otherChildren, listed, prefResult, loaded, now, storeVars, imageLog, memVars,
                   taskVars>>

\* an awaited getPreference(key, defaultValue) / getPreference(key) call
GetPreferenceCall(key, given, defaultValue) ==
    /\ prefResult' =
          LET result == GetPreference(prefFiles[key], given, defaultValue)
          IN [done |-> TRUE, key |-> key, given |-> given, defaultValue |-> defaultValue,
              file |-> prefFiles[key], isNull |-> result.isNull, text |-> result.text]
    /\ UNCHANGED <<otherChildren, listed, prefFiles, loaded, now, storeVars, imageLog, memVars,
                   taskVars>>

\* ------------------------------------------------------- the application
\* message.images of a response: 1..MaxImages image objects of which at most the
\* first is unusable
ImageLists ==
    {images \in UNION {[1..n -> Payloads] : n \in 1..MaxImages} :
        \A k \in 2..Len(images) : images[k] = "ok"}

\* responses that carry one image object
SingleImage == {images \in ImageLists : Len(images) = 1}

\* a click on Generate, with whatever is in the form
Submit ==
    \E online \in BOOLEAN, apiKey \in {"", "key"}, prompt \in Prompts \cup {""},
       seed \in Seeds : HandleGenerate(online, apiKey, prompt, seed)

\* a click on Generate with the form filled in
SubmitFilled ==
    \E prompt \in Prompts, seed \in Seeds : HandleGenerate(TRUE, "key", prompt, seed)

\* the remote call settles
Respond(contents, imageLists) ==
    \/ \E r \in GenIds : GenerateImageFailed(r)
    \/ \E r \in GenIds, content \in contents, images \in imageLists :
          GenerateImageDone(r, content, images)

\* the storage steps of a generation
Persist ==
    \/ \E r \in GenIds, storageOk \in BOOLEAN : CreateConversationDone(r, storageOk)
    \/ \E r \in GenIds : GenSaveImageScan(r)
    \/ \E r \in GenIds, storageOk \in BOOLEAN : GenSaveImageWrite(r, storageOk)
    \/ \E r \in GenIds : AfterSave(r)

Balance == \E ok \in BOOLEAN : BalanceDone(ok)

Summary ==
    \/ \E r \in GenIds : InitSummaryDone(r)
    \/ \E r \in GenIds, title \in {"", "Cat", NEW_CONVERSATION} : TitleDone(r, title)
    \/ \E r \in GenIds : UpdateSummaryDone(r)
    \/ \E r \in GenIds : ListRefresh(r)
    \/ \E t \in Times, title \in {"", "Cat"} : ListTitleDone(t, title)

\* what a call of getGenerationInfo can give
Outcomes == {"usage", "empty", "throw"}

Enrichment(outcomes) ==
    \/ \E r \in GenIds : PollDelayDone(r)
    \/ \E r \in GenIds, outcome \in outcomes :
          GetGenerationInfoDone(r, outcome)
    \/ \E r \in GenIds, generationData \in {NULL_TEXT, "usage"} : EnrichDone(r, generationData)

Regeneration ==
    \/ \E q \in RegenIds, kind \in {"seed", "upscale"}, entryIndex \in 1..MaxGen,
          imageIndex \in 1..(MaxImages + MaxRegen), newSeed \in {7} :
          HandleRegenerate(q, kind, entryIndex, imageIndex, "key", newSeed)
    \/ \E q \in RegenIds : RegenerateFailed(q)
    \/ \E q \in RegenIds, payload \in Payloads : RegenerateDone(q, payload)
    \/ \E q \in RegenIds : RegenSaveImageScan(q)
    \/ \E q \in RegenIds, storageOk \in BOOLEAN : RegenSaveImageWrite(q, storageOk)

Navigation ==
    \/ HandleNewConversation
    \/ \E t \in Times : LoadConversationIntoView(t)

Settings ==
    \/ SelectModel
    \/ \E resolution \in Resolutions : SetResolution(resolution)

\* names of up to MaxNameLen characters, other than the names of the directories
\* the application makes within MaxTime
NameChars == {"0", "1", "a"}
Names ==
    UNION {[1..n -> NameChars] : n \in 1..MaxNameLen} \ {DecimalName(t) : t \in Times}
OtherEntries == {[name |-> n, kind |-> k] : n \in Names, k \in {"directory", "file"}}

\* the listing of a conversations/ directory that holds up to MaxOther entries
\* the application did not make, no two with the same name
InitListing ==
    /\ otherChildren \in {S \in SUBSET OtherEntries :
                             /\ Cardinality(S) <= MaxOther
                             /\ \A c, d \in S : c.name = d.name => c = d}
    /\ listed = NotListed
    /\ prefFiles = [k \in PrefKeys |-> NoFile]
    /\ prefResult = NoAnswer
    /\ loaded = NotLoaded
    /\ now = 1
    /\ EmptyStore
    /\ imageLog = [t \in Times |-> <<>>]
    /\ FreshPage
    /\ gens = [r \in GenIds |-> NoGen]

\* a store left by earlier sessions: per second no directory, a directory without
\* conversation.json, one whose conversation.json does not parse, or one with a
\* conversation
InitStored ==
    /\ SideIdle
    /\ now = 1
    /\ convDirs \in SUBSET Times
    /\ imageFiles = [t \in Times |-> {}]
    /\ conversationJson \in [Times -> {NULL, CORRUPT} \cup
                                {[timestamp |-> t, entries |-> <<LegacyEntry>>] : t \in Times}]
    /\ \A t \in Times : /\ t \notin convDirs => conversationJson[t] = NULL
                        /\ conversationJson[t] \notin {NULL, CORRUPT} =>
                              conversationJson[t].timestamp = t
    /\ summaryJson = [t \in Times |-> NULL]
    /\ imageLog = [t \in Times |-> <<>>]
    /\ FreshPage
    /\ gens = [r \in GenIds |-> NoGen]

\* a store left by earlier sessions: every second either has no conversation, or
\* one with its record, its summary and its first image
InitArchive ==
    /\ SideIdle
    /\ now = 1
    /\ convDirs \in SUBSET Times
    /\ imageFiles = [t \in Times |-> IF t \in convDirs THEN {1} ELSE {}]
    /\ conversationJson = [t \in Times |->
          IF t \in convDirs THEN [timestamp |-> t, entries |-> <<LegacyEntry>>] ELSE NULL]
    /\ summaryJson = [t \in Times |->
          IF t \in convDirs
          THEN [DefaultSummary(t) EXCEPT !.imageCount = 1, !.entryCount = 1] ELSE NULL]
    /\ imageLog = [t \in Times |-> IF t \in convDirs THEN <<1>> ELSE <<>>]
    /\ FreshPage
    /\ gens = [r \in GenIds |-> NoGen]

\* conversations deleted, made and given images over such a store, and the store read
NextDelete ==
    \/ Tick
    \/ \E storageOk \in BOOLEAN : CreateConversation(storageOk)
    \/ \E t \in Times, payload \in Payloads \ {"nourl"}, storageOk \in BOOLEAN :
          SaveImage(t, payload, storageOk)
    \/ \E t \in Times : DeleteConversation(t)
    \/ ListConversationsCall
    \/ \E t \in Times : LoadConversationCall(t)

SpecDelete == InitArchive /\ [][NextDelete]_vars

\* loads over such a store, between creations and deletions of conversations
NextLoad ==
    \/ Tick
    \/ \E storageOk \in BOOLEAN : CreateConversation(storageOk)
    \/ \E t \in Times : DeleteConversation(t)
    \/ \E t \in Times : LoadConversationCall(t)

SpecLoad == InitStored /\ [][NextLoad]_vars

NextListing ==
    \/ Tick
    \/ \E storageOk \in BOOLEAN : CreateConversation(storageOk)
    \/ ListConversationsCall

SpecListing == InitListing /\ [][NextListing]_vars

\* the preference files driven directly, one awaited call at a time
PrefChars == {" ", "x"}
PrefValues == UNION {[1..n -> PrefChars] : n \in 0..MaxPrefLen}

NextPreferences ==
    \/ \E key \in PrefKeys, value \in PrefValues, storageOk \in BOOLEAN :
          SavePreference(key, value, storageOk)
    \/ \E key \in PrefKeys : DeletePreference(key)
    \/ \E key \in PrefKeys, given \in BOOLEAN, defaultValue \in {<<>>, <<"x">>} :
          GetPreferenceCall(key, given, defaultValue)

SpecPreferences == Init /\ [][NextPreferences]_vars

Next ==
    \/ Tick
    \/ Settings
    \/ Submit
    \/ Respond({NULL_TEXT, "A cat."}, ImageLists)
    \/ Persist
    \/ Balance
    \/ Summary
    \/ Enrichment(Outcomes)
    \/ Regeneration
    \/ Navigation
    \/ ListConversationsCall
    \/ \E t \in Times : LoadConversationCall(t)
    \/ NextPreferences

Spec == Init /\ [][Next]_vars

\* the repository driven directly, one awaited call at a time
NextRepo ==
    \/ Tick
    \/ \E storageOk \in BOOLEAN : CreateConversation(storageOk)
    \/ \E t \in Times, payload \in Payloads \ {"nourl"}, storageOk \in BOOLEAN :
          SaveImage(t, payload, storageOk)
    \/ \E t \in Times : DeleteImagesForConversation(t)
    \/ \E t \in Times : DeleteConversation(t)

SpecRepo == Init /\ [][NextRepo]_vars

\* the Generate button and one request pipeline: submissions, the remote call
\* and the storage steps
NextGenerate ==
    \/ SelectModel
    \/ Submit
    \/ Respond({NULL_TEXT, "A cat."}, ImageLists)
    \/ Persist

SpecGenerate == Init /\ [][NextGenerate]_vars

\* generations while the model and resolution dropdowns are used
NextResolution ==
    \/ Settings
    \/ SubmitFilled
    \/ Respond({"A cat."}, ImageLists)
    \/ Persist

SpecResolution == Init /\ [][NextResolution]_vars

\* generations together with regenerate requests and conversation switches
NextConversation ==
    \/ SelectModel
    \/ SubmitFilled
    \/ Respond({"A cat."}, ImageLists)
    \/ Persist
    \/ Regeneration
    \/ Navigation

SpecConversation == Init /\ [][NextConversation]_vars

\* the same, over an empty store or one left by an earlier release
SpecUpgrade == (Init \/ InitLegacy) /\ [][NextConversation]_vars

\* submissions made in different seconds
NextTurns ==
    \/ Tick
    \/ SelectModel
    \/ SubmitFilled
    \/ Respond({"A cat."}, SingleImage)
    \/ Persist

SpecTurns == Init /\ [][NextTurns]_vars

\* generations together with the summary tasks they start
NextSummary ==
    \/ Tick
    \/ SelectModel
    \/ SubmitFilled
    \/ Respond({"A cat."}, ImageLists)
    \/ Persist
    \/ Summary

SpecSummary == Init /\ [][NextSummary]_vars

\* a returning user: a stored conversation is opened, images are regenerated while
\* a generation is in flight, and Generate is clicked again
NextReentry ==
    \/ SelectModel
    \/ SubmitFilled
    \/ Respond({"A cat."}, SingleImage)
    \/ Persist
    \/ Regeneration
    \/ \E t \in Times : LoadConversationIntoView(t)

SpecReentry == InitReturning /\ [][NextReentry]_vars

\* generations with one-image responses, the balance refresh and the New
\* Conversation button; storage operations and the balance request always settle,
\* the remote call need not
NextSettle ==
    \/ SelectModel
    \/ SubmitFilled
    \/ Respond({"A cat."}, SingleImage)
    \/ Persist
    \/ Balance
    \/ HandleNewConversation

FairSettle == Init /\ [][NextSettle]_vars /\ WF_vars(Persist) /\ WF_vars(Balance)

\* generations, the usage polling each of them starts, and conversation switches
NextPolling ==
    \/ SelectModel
    \/ SubmitFilled
    \/ Respond({"A cat."}, SingleImage)
    \/ Persist
    \/ Enrichment(Outcomes)
    \/ Navigation

SpecPolling == Init /\ [][NextPolling]_vars

\* generations at the resolution chosen in the dropdown, and the regenerate
\* buttons of their images
NextUpscale ==
    \/ Settings
    \/ SubmitFilled
    \/ Respond({"A cat."}, SingleImage)
    \/ Persist
    \/ Regeneration

SpecUpscale == Init /\ [][NextUpscale]_vars

\* one conversation with every background task of a turn: the summary tasks,
\* the usage polling (answered at the first attempt) and the regenerate buttons
NextReconcile ==
    \/ SelectModel
    \/ SubmitFilled
    \/ Respond({"A cat."}, SingleImage)
    \/ Persist
    \/ Summary
    \/ Enrichment({"usage"})
    \/ Regeneration

SpecReconcile == Init /\ [][NextReconcile]_vars

\* a returning user: turns with their summary tasks, while the stored
\* conversation is opened from the list
NextTitles ==
    \/ SelectModel
    \/ SubmitFilled
    \/ Respond({"A cat."}, SingleImage)
    \/ Persist
    \/ Summary
    \/ \E t \in Times : LoadConversationIntoView(t)

SpecTitles == InitReturning /\ [][NextTitles]_vars

\* ======================================================= properties
\* imageLog[t] is the sequence of indices saveImage has returned for conversation t

\* C1: every successful saveImage call on a conversation returns an index exactly
\* one greater than the largest index returned before it, also after an earlier
\* save failed or images were deleted.
C1_IndexIsPreviousMaxPlusOne ==
    \A t \in Times : \A k \in 2..Len(imageLog[t]) :
        imageLog[t][k] = Max({imageLog[t][j] : j \in 1..(k - 1)}) + 1

\* C2: an index saveImage has returned for a conversation is never returned again
\* for it, also after deleteImagesForConversation.
C2_IndexNeverReturnedAgain ==
    \A t \in Times : \A j, k \in 1..Len(imageLog[t]) :
        j # k => imageLog[t][j] # imageLog[t][k]

InFlight(r) == gens[r].pc \notin {"none", "done"}

\* the step in which the remote call of request r is rejected
RemoteCallFails(r) ==
    /\ gens[r].pc = "remote"
    /\ gens'[r].pc = "done"
    /\ gens'[r].outcome = "remoteFailed"

HasPlaceholder(record) ==
    /\ record # NULL
    /\ \E k \in 1..Len(record.entries) : IsPlaceholder(record.entries[k])

\* C4: after a failed generation no conversation.json holds the placeholder
\* entry, also when a regenerate save ran while the call was in flight.
C4_FailedGenerationPersistsNoPlaceholder ==
    [][\A r \in GenIds : RemoteCallFails(r) =>
          \A t \in Times : ~HasPlaceholder(conversationJson'[t])]_vars

AtMostOneInFlight == Cardinality({r \in GenIds : InFlight(r)}) <= 1

\* C5: at most one generation is in flight; a submission made while isGenerating
\* is true starts no request and changes nothing: conversationHistory,
\* currentConversation, the store, the form and the pending tasks stay as they were.
C5_OneGenerationInFlight ==
    [][/\ AtMostOneInFlight'
       /\ \A r \in GenIds : gens[r].pc = "none" /\ gens'[r].pc # "none" =>
             ~isGenerating /\ \A r2 \in GenIds : ~InFlight(r2)
       /\ rejected' /\ ~rejected =>
             /\ isGenerating
             /\ UNCHANGED <<now, storeVars, memVars, gens, regens, listTitle,
                            balanceRefreshes, balanceDisplay>>]_vars

\* a regenerate request finished during the remote call of a generation and
\* re-enabled the button; the submission that followed was turned away
C5_Witness ==
    /\ rejected
    /\ isGenerating
    /\ ~generateDisabled
    /\ \E r \in GenIds : gens[r].pc = "remote"
    /\ \E q \in RegenIds : regens[q].pc = "done"

\* the remote call of a request has resolved and its persist step is under way
RemoteCallSettled == \E r \in GenIds : gens[r].pc \in {"scan", "write", "saved"}

\* C6: once the remote call of a validated submission has settled (resolved,
\* rejected, or resolved with the persist step throwing), isGenerating is reset
\* to false, and the step that resets it issues a balance refresh, whatever that
\* refresh does.
C6_FlagClearedAfterSettlement ==
    /\ RemoteCallSettled ~> ~isGenerating
    /\ [][\A r \in GenIds : gens[r].pc = "remote" /\ gens'[r].pc = "done" =>
             ~isGenerating']_vars
    /\ [][isGenerating /\ ~isGenerating' =>
             balanceRefreshes' = balanceRefreshes + 1]_vars

\* the persist step threw, the flag is clear and the balance refresh has failed
C6_Witness ==
    \E r \in GenIds :
        /\ gens[r].outcome = "persistThrew"
        /\ ~isGenerating
        /\ balanceRefreshes = 0
        /\ balanceDisplay = "Balance unavailable"

\* C7: a submission that fails a validation shows its message and changes
\* nothing: isGenerating stays false, currentConversation, conversationHistory
\* and the store are unchanged, no request is started.
C7_InvalidSubmissionChangesNothing ==
    [][displayedError' \in ValidationMessages /\ displayedError' # displayedError =>
          /\ ~isGenerating /\ ~isGenerating'
          /\ UNCHANGED <<currentConversation, conversationHistory, storeVars, gens>>]_vars

\* the empty-prompt message is shown over a conversation that has an entry
C7_Witness ==
    /\ displayedError = "Please enter a prompt"
    /\ ~isGenerating
    /\ currentConversation # NULL
    /\ Len(currentConversation.entries) = 1
    /\ gens[2].pc = "none"

\* the step in which request r persists its entry
EntryPersisted(r) == gens[r].pc # "saved" /\ gens'[r].pc = "saved"

\* C8: a successful generation with N payloads of which M < N fail to decode or
\* save persists an entry with N - M filenames, each with the resolution chosen
\* at submission, also when the dropdown changed during the call.
C8_PersistedEntryMatchesSavedImages ==
    [][\A r \in GenIds :
          EntryPersisted(r) /\ gens'[r].failedSaves < Len(gens'[r].urls) =>
             LET record == conversationJson'[gens'[r].savedTs]
                 entry == record.entries[gens'[r].entryIdx]
             IN /\ Len(entry.response.imageFilenames) =
                      Len(gens'[r].urls) - gens'[r].failedSaves
                /\ Len(entry.response.imageResolutions) =
                      Len(entry.response.imageFilenames)
                /\ \A k \in 1..Len(entry.response.imageResolutions) :
                      entry.response.imageResolutions[k] = gens[r].resolution]_vars

\* one of two payloads failed and the dropdown was changed during the call
C8_Witness ==
    \E r \in GenIds :
        /\ gens[r].pc = "saved"
        /\ Len(gens[r].urls) = 2
        /\ gens[r].failedSaves = 1
        /\ resolutionDropdown # gens[r].resolution

EqualLengths(record) ==
    record # NULL =>
        \A k \in 1..Len(record.entries) :
            (/\ ~IsPlaceholder(record.entries[k])
             /\ "imageResolutions" \in DOMAIN record.entries[k].response) =>
                Len(record.entries[k].response.imageFilenames) =
                Len(record.entries[k].response.imageResolutions)

HasResolutions(record) ==
    record # NULL =>
        \A k \in 1..Len(record.entries) :
            "imageResolutions" \in DOMAIN record.entries[k].response

\* C9: every finalized entry has as many imageResolutions as imageFilenames: in
\* memory, in every conversation.json the application has written, and in
\* every conversation as loadConversation returns it.
C9_FilenamesAndResolutionsAligned ==
    /\ HasResolutions(currentConversation) /\ EqualLengths(currentConversation)
    /\ \A t \in Times : EqualLengths(conversationJson[t])
    /\ \A t \in Times :
          HasResolutions(LoadConversation(t)) /\ EqualLengths(LoadConversation(t))

\* a persisted entry with two generated images and an upscaled one, loaded into view
C9_Witness ==
    /\ currentConversation # NULL
    /\ \E k \in 1..Len(currentConversation.entries) :
          /\ Len(currentConversation.entries[k].response.imageFilenames) = 3
          /\ currentConversation.entries[k].response.imageResolutions[3] = UPSCALE_RESOLUTION
    /\ \A r \in GenIds : ~gens[r].entryLive
    /\ conversationJson[currentConversation.timestamp] = JsonConversation(currentConversation)

\* C9, the legacy case: the loaded legacy entry got an upscaled image appended
\* and was saved
C9_LegacyWitness ==
    /\ currentConversation # NULL
    /\ currentConversation.timestamp = 1
    /\ now = MaxTime
    /\ \A r \in GenIds : ~InFlight(r) /\ gens[r].savedTs = 0
    /\ Len(currentConversation.entries) = 1
    /\ currentConversation.entries[1].response.imageResolutions =
          <<DEFAULT_RESOLUTION, UPSCALE_RESOLUTION>>
    /\ conversationJson[1] = JsonConversation(currentConversation)

\* C10: after the first successful generation of a new conversation saved k >= 1
\* images and its summary tasks have completed, the persisted summary has
\* entryCount = 1 and imageCount = k, whatever the title call returned.
C10_FirstTurnSummaryCounts ==
    \A r \in GenIds :
        (/\ gens[r].outcome = "success"
         /\ gens[r].saved >= 1
         /\ gens[r].initPc = "done" /\ gens[r].titlePc = "done" /\ gens[r].listPc = "done"
         /\ \A t \in Times : listTitle[t] = "none"
         /\ \A r2 \in GenIds \ {r} : gens[r2].pc = "none")
        => /\ summaryJson[gens[r].taskTs] # NULL
           /\ summaryJson[gens[r].taskTs].entryCount = 1
           /\ summaryJson[gens[r].taskTs].imageCount = gens[r].saved

\* C11: a recompute updateConversationSummary(timestamp) made right after another
\* one, with the conversation untouched in between, returns the same imageCount,
\* entryCount, title and created as the first.
C11_RecomputeTwiceSameCounts ==
    [][\A r \in GenIds :
          LET first == UpdateConversationSummary(gens[r].taskTs, NULL_TEXT)
              second == UpdateConversationSummary(gens[r].taskTs, NULL_TEXT)'
          IN gens[r].updPc = "pending" /\ gens'[r].updPc = "done" /\ first # NULL =>
                /\ summaryJson'[gens[r].taskTs] = first
                /\ second # NULL
                /\ second.imageCount = first.imageCount
                /\ second.entryCount = first.entryCount
                /\ second.title = first.title
                /\ second.created = first.created]_vars

\* the recompute of a second turn has written a two-entry summary
C11_Witness ==
    \E r \in GenIds :
        /\ gens[r].updPc = "done"
        /\ summaryJson[gens[r].taskTs] # NULL
        /\ summaryJson[gens[r].taskTs].entryCount = 2
        /\ summaryJson[gens[r].taskTs].imageCount >= 1

DecimalInteger(name) == name # <<>> /\ \A k \in 1..Len(name) : name[k] \in Digits

C13_ListingDescendingNumericOnly ==
    listed.done =>
        /\ \A i \in 1..(Len(listed.timestamps) - 1) :
              listed.timestamps[i] > listed.timestamps[i + 1]
        /\ {listed.timestamps[i] : i \in 1..Len(listed.timestamps)} =
              {ParseDigits(c.name, 0) : c \in {d \in listed.children :
                  d.kind = "directory" /\ DecimalInteger(d.name)}}

\* the default of the answered call, or null when none was given
AnsweredDefault ==
    /\ prefResult.isNull = ~prefResult.given
    /\ prefResult.given => prefResult.text = prefResult.defaultValue

Blank(file) == ~file.exists \/ \A k \in 1..Len(file.content) : file.content[k] = " "

\* C14 as stated: getPreference answers the default (null when none is given) when
\* the key has no file or a blank one, and otherwise the stored value itself.
C14_StoredValueReturned ==
    prefResult.done =>
        IF Blank(prefResult.file) THEN AnsweredDefault
        ELSE ~prefResult.isNull /\ prefResult.text = prefResult.file.content

\* C14: getPreference answers the default (null when none is given) when the key
\* has no file or a blank one, and otherwise the stored value without its
\* leading and trailing blanks.
C14_TrimmedValueReturned ==
    prefResult.done =>
        IF Blank(prefResult.file) THEN AnsweredDefault
        ELSE /\ ~prefResult.isNull
             /\ prefResult.text # <<>>
             /\ prefResult.text[1] # " " /\ prefResult.text[Len(prefResult.text)] # " "
             /\ \E i, j \in 1..Len(prefResult.file.content) :
                   /\ prefResult.text = SubSeq(prefResult.file.content, i, j)
                   /\ \A k \in 1..Len(prefResult.file.content) :
                         k < i \/ k > j => prefResult.file.content[k] = " "

\* a value saved with a leading blank was read back while the other key has a file
C14_Witness ==
    /\ prefResult.done
    /\ prefResult.file.exists
    /\ prefResult.file.content = <<" ", "x">>
    /\ prefResult.text = <<"x">>
    /\ \E k \in PrefKeys : k # prefResult.key /\ prefFiles[k].exists

\* the step in which regenerate request q gets its image saved
RegenImageSaved(q) ==
    /\ regens[q].pc = "write"
    /\ regens'[q].pc = "done"
    /\ imageLog' # imageLog

\* C15: when the image of a regenerate-with-new-seed request is saved, the
\* conversation the request was made in is the one in view, its entry the request
\* was made on gains exactly the new filename and the resolution of the source
\* image at the end, every other entry and the number of entries stay as they
\* are, and the conversation is persisted as it then is.
C15_RegenerateAppendsToSameEntry ==
    [][\A q \in RegenIds :
          RegenImageSaved(q) /\ regens[q].kind = "seed" =>
             LET t == regens[q].clickTs
                 k == regens[q].idx
             IN /\ currentConversation # NULL /\ currentConversation' # NULL
                /\ currentConversation.timestamp = t
                /\ currentConversation'.timestamp = t
                /\ k <= Len(currentConversation.entries)
                /\ currentConversation'.entries =
                      [currentConversation.entries EXCEPT
                          ![k].response.imageFilenames =
                              Append(@, FileName(regens[q].nextIndex)),
                          ![k].response.imageResolutions =
                              Append(@, currentConversation.entries[k].response.imageResolutions[
                                            regens[q].imageIdx])]
                /\ conversationJson'[t] = JsonConversation(currentConversation')]_vars

\* C16: a loadConversation call answers null when the directory or its
\* conversation.json is missing or the text does not parse (nothing is thrown to
\* the caller), answers a conversation otherwise, and changes no conversation
\* directory or file.
C16_LoadAnswersNullOnMissingOrCorrupt ==
    [][loaded' # loaded =>
          /\ UNCHANGED <<storeVars, otherChildren>>
          /\ loaded'.done
          /\ IF \/ loaded'.timestamp \notin convDirs
                \/ conversationJson[loaded'.timestamp] = NULL
                \/ conversationJson[loaded'.timestamp] = CORRUPT
             THEN loaded'.result = NULL
             ELSE /\ loaded'.result # NULL
                  /\ loaded'.result.timestamp = conversationJson[loaded'.timestamp].timestamp
                  /\ Len(loaded'.result.entries) =
                        Len(conversationJson[loaded'.timestamp].entries)]_vars

\* a load of a conversation.json that does not parse has answered null while the
\* file is still there
C16_Witness ==
    /\ loaded.done
    /\ loaded.file = CORRUPT
    /\ loaded.result = NULL
    /\ conversationJson[loaded.timestamp] = CORRUPT

\* the step in which request r appends its placeholder
PlaceholderWritten(r) == gens[r].pc = "creating" /\ gens'[r].pc = "remote"

\* C17: once a submission has appended its placeholder, its createConversation
\* call having made or found its directory, the directory named by
\* currentConversation.timestamp exists, so that saveImage for that timestamp
\* finds it.
C17_DirectoryExistsAfterPlaceholder ==
    [][\A r \in GenIds :
          PlaceholderWritten(r) /\ gens[r].createTs \in convDirs' =>
             /\ currentConversation' # NULL
             /\ currentConversation'.timestamp \in convDirs']_vars

\* C18: the step that persists the entry of request r writes it at the index
\* where r appended its placeholder, in the conversation r appended it to, which
\* is still the one in view; every other entry of that conversation and every
\* other persisted conversation stay as they are.
C18_FinalEntryReplacesOwnPlaceholder ==
    [][\A r \in GenIds :
          EntryPersisted(r) =>
             /\ gens[r].phLive
             /\ currentConversation'.timestamp = gens[r].phTs
             /\ gens'[r].entryIdx = gens[r].phIdx
             /\ Len(currentConversation'.entries) = Len(currentConversation.entries)
             /\ \A k \in 1..Len(currentConversation.entries) :
                   k # gens[r].phIdx =>
                       currentConversation'.entries[k] = currentConversation.entries[k]
             /\ \A t \in Times :
                   t # gens[r].phTs => conversationJson'[t] = conversationJson[t]]_vars

\* C19: an entry of the current conversation that carries the "generating"
\* sentinel has it as its only filename, and only while a generation request is
\* in flight: once the request has settled no entry carries it.
C19_NoSentinelOnceSettled ==
    currentConversation # NULL =>
        \A k \in 1..Len(currentConversation.entries) :
            LET imageFilenames == currentConversation.entries[k].response.imageFilenames
            IN (\E i \in 1..Len(imageFilenames) : imageFilenames[i] = GENERATING) =>
                  /\ imageFilenames = <<GENERATING>>
                  /\ \E r \in GenIds : InFlight(r)

\* the step in which the response of request r arrives with no image url in it
ResponseWithoutUrls(r) ==
    /\ gens[r].pc = "remote"
    /\ gens'[r].pc # "remote"
    /\ gens'[r].response # NULL
    /\ gens'[r].urls = <<>>

\* C20: a response from which no image url can be extracted is handled as a
\* failure: the placeholder is popped, an error is shown and nothing is persisted.
C20_ZeroImagesHandledAsFailure ==
    [][\A r \in GenIds :
          ResponseWithoutUrls(r) =>
             /\ gens'[r].pc = "done"
             /\ gens'[r].outcome # "success"
             /\ currentConversation' # NULL
             /\ Len(currentConversation'.entries) = gens[r].phIdx - 1
             /\ displayedError' # NULL_TEXT
             /\ conversationJson' = conversationJson]_vars

\* no request, regenerate, summary, list-title or polling task is outstanding
AllTasksCompleted ==
    /\ \A r \in GenIds :
          /\ gens[r].pc \in {"none", "done"}
          /\ gens[r].initPc # "pending" /\ gens[r].titlePc # "pending"
          /\ gens[r].updPc # "pending" /\ gens[r].listPc # "pending"
          /\ gens[r].enrichPc # "polling"
    /\ \A q \in RegenIds : regens[q].pc \in {"none", "done"}
    /\ \A t \in Times : listTitle[t] = "none"

\* C21: whenever every started generation, regeneration, summary and enrichment
\* task has completed, each persisted summary has entryCount equal to the number
\* of entries of the persisted record and imageCount equal to the sum of the
\* lengths of their imageFilenames.
C21_SummaryCountsMatchRecordWhenIdle ==
    AllTasksCompleted =>
        \A t \in Times :
            summaryJson[t] # NULL /\ conversationJson[t] # NULL =>
                /\ summaryJson[t].entryCount = Len(conversationJson[t].entries)
                /\ summaryJson[t].imageCount = SumLen(conversationJson[t].entries)

\* timers and calls still ahead of the loop of request g, at most
StepsLeft(g) ==
    IF g.enrichPc = "polling" THEN 2 * (MAX_RETRIES - g.attempt)
    ELSE IF g.enrichPc = "calling" THEN 2 * (MAX_RETRIES - g.attempt) - 1
    ELSE 0

\* C22: fetchGenerationDataWithRetry(apiKey, id, 5) always terminates: every step
\* of the loop brings its end nearer; it calls getGenerationInfo at most 5 times
\* and only after the delay of that attempt; it returns the first payload as soon
\* as an attempt yields it, whatever failed before; and it returns null, without
\* raising, when all 5 attempts gave nothing.
C22_PollingTerminatesWithinFiveAttempts ==
    [][\A r \in GenIds :
          LET g == gens[r]
              h == gens'[r]
          IN /\ h.calls <= MAX_RETRIES
             /\ StepsLeft(h) >= 0
             /\ (g.enrichPc \in {"polling", "calling"} /\
                   <<g.enrichPc, g.attempt>> # <<h.enrichPc, h.attempt>>)
                   => StepsLeft(h) < StepsLeft(g)
             /\ h.calls > g.calls =>
                   g.enrichPc = "polling" /\ h.waits = g.waits + 1 /\ h.waits = h.calls
             /\ (g.enrichPc = "calling" /\ h.enrichPc = "returned") =>
                   \/ /\ h.generationData = "usage"
                      /\ h.failures = g.failures /\ h.failures = h.calls - 1
                   \/ /\ h.generationData = NULL_TEXT
                      /\ h.calls = MAX_RETRIES /\ h.failures = MAX_RETRIES]_vars

\* one loop has returned a payload at its third attempt, after two attempts that
\* gave nothing, and another has returned null after five attempts
C22_Witness ==
    \E r, r2 \in GenIds :
        /\ gens[r].enrichPc = "returned" /\ gens[r].generationData = "usage"
        /\ gens[r].calls = 3
        /\ gens[r2].enrichPc = "returned" /\ gens[r2].generationData = NULL_TEXT
        /\ gens[r2].calls = MAX_RETRIES

\* C23: once the polling of a turn has returned a usage payload and its handler
\* has run, the persisted record of that turn's conversation has that entry's
\* generationData set, also when the user opened another conversation or
\* started a new one before the polling completed.
C23_UsagePayloadReachesRecord ==
    \A r \in GenIds :
        (gens[r].enrichPc = "done" /\ gens[r].generationData = "usage") =>
            /\ conversationJson[gens[r].savedTs] # NULL
            /\ gens[r].entryIdx \in 1..Len(conversationJson[gens[r].savedTs].entries)
            /\ conversationJson[gens[r].savedTs].entries[gens[r].entryIdx]
                  .response.generationData = "usage"

\* C24: once a generated title has been written to the summary of a
\* conversation, no later step of the flow (in particular the write of
\* initializeConversationSummary) puts "New Conversation" back.
C24_GeneratedTitleKept ==
    [][\A t \in Times :
          (summaryJson[t] # NULL /\ summaryJson[t].title # NEW_CONVERSATION) =>
              /\ summaryJson'[t] # NULL
              /\ summaryJson'[t].title # NEW_CONVERSATION]_vars

\* C25: when the title request of a first turn fails or returns an empty title
\* (generateConversationTitle resolves with ""), no error is shown, nothing is
\* written: the summary, and so its "New Conversation" title, stays as it was,
\* and so do the persisted record, the conversation in memory and the in-flight flag
\* and button.
C25_FailedTitleChangesNothing ==
    [][\A r \in GenIds :
          (gens[r].titlePc = "pending" /\ gens'[r].titlePc = "done" /\ gens'[r].title = "")
          => /\ UNCHANGED <<displayedError, storeVars, currentConversation,
                            isGenerating, generateDisabled>>
             /\ summaryJson[gens[r].taskTs] # NULL =>
                   summaryJson'[gens[r].taskTs].title = summaryJson[gens[r].taskTs].title]_vars

\* the title request of a saved first turn has failed after the placeholder
\* summary was written: the title is still "New Conversation", no error is shown
C25_Witness ==
    \E r \in GenIds :
        /\ gens[r].titlePc = "done" /\ gens[r].title = ""
        /\ gens[r].initPc = "done"
        /\ summaryJson[gens[r].taskTs] # NULL
        /\ summaryJson[gens[r].taskTs].title = NEW_CONVERSATION
        /\ conversationJson[gens[r].taskTs] # NULL
        /\ Len(conversationJson[gens[r].taskTs].entries) = 1
        /\ displayedError = NULL_TEXT
        /\ isGenerating = FALSE

\* C26: the created stamp of a summary is the one of its first write: no later
\* initialize or recompute changes it; every recompute (of a later turn, or one
\* that carries a title) sets updated to the current time.
C26_CreatedFixedUpdatedStamped ==
    [][/\ \A t \in Times :
            summaryJson[t] # NULL =>
                summaryJson'[t] # NULL /\ summaryJson'[t].created = summaryJson[t].created
       /\ \A r \in GenIds :
            /\ (gens[r].updPc = "pending" /\ gens'[r].updPc = "done"
                   /\ LoadConversation(gens[r].taskTs) # NULL)
                  => summaryJson'[gens[r].taskTs].updated = now
            /\ (gens[r].titlePc = "pending" /\ gens'[r].titlePc = "done"
                   /\ gens'[r].title = "Cat" /\ currentConversation # NULL
                   /\ LoadConversation(currentConversation.timestamp) # NULL)
                  => summaryJson'[currentConversation.timestamp].updated = now]_vars

\* a summary first written in second 1 has been recomputed in second 2
C26_Witness ==
    \E t \in Times :
        /\ summaryJson[t] # NULL
        /\ summaryJson[t].created = 1
        /\ summaryJson[t].updated = 2
        /\ summaryJson[t].entryCount >= 1

\* C27: initializing or recomputing a summary never changes the conversation:
\* conversation.json, the conversation in memory and the image files are the same
\* after the step as before it.
C27_SummaryWritesLeaveConversation ==
    [][(\/ \E r \in GenIds :
             \/ gens[r].initPc = "pending" /\ gens'[r].initPc = "done"
             \/ gens[r].updPc = "pending" /\ gens'[r].updPc = "done"
             \/ gens[r].titlePc = "pending" /\ gens'[r].titlePc = "done"
        \/ \E t \in Times : listTitle[t] = "pending" /\ listTitle'[t] = "none")
       => UNCHANGED <<conversationJson, currentConversation, imageFiles>>]_vars

\* a summary has been initialized and another recomputed with a title, over
\* records that have an entry with an image
C27_Witness ==
    \E t \in Times :
        /\ summaryJson[t] # NULL
        /\ summaryJson[t].title = "Cat"
        /\ summaryJson[t].imageCount >= 1
        /\ conversationJson[t] # NULL
        /\ imageFiles[t] # {}
        /\ \E r \in GenIds : gens[r].initPc = "done"

C29_UpscaleSkips4KElseAppends4K ==
    [][\A q \in RegenIds :
          /\ (regens[q].pc = "none" /\ regens'[q].kind = "declined") =>
                /\ regens'[q].pc = "done"
                /\ UNCHANGED <<now, storeVars, imageLog, memVars, gens, listTitle,
                               balanceRefreshes, balanceDisplay, rejected>>
          /\ (regens[q].pc = "none" /\ regens'[q].kind = "upscale") =>
                LET entry == currentConversation.entries[regens'[q].idx]
                IN /\ entry.response.imageResolutions[regens'[q].imageIdx] # "4K"
                   /\ regens'[q].pc = "remote"
                   /\ regens'[q].resolution = "4K"
                   /\ regens'[q].seed = entry.message.seed
          /\ (regens[q].kind = "upscale" /\ RegenImageSaved(q) /\ regens[q].live) =>
                LET before == currentConversation.entries[regens[q].idx].response
                    after == currentConversation'.entries[regens[q].idx].response
                IN /\ Len(currentConversation'.entries) = Len(currentConversation.entries)
                   /\ after.imageFilenames =
                         Append(before.imageFilenames, FileName(Last(imageLog'[regens[q].ts])))
                   /\ after.imageResolutions = Append(before.imageResolutions, "4K")
                   /\ \A e \in 1..Len(currentConversation.entries) :
                         e # regens[q].idx =>
                            currentConversation'.entries[e] = currentConversation.entries[e]]_vars

\* an upscaled image has been appended to an entry made at "1K"
C29_Witness ==
    /\ currentConversation # NULL
    /\ \E e \in 1..Len(currentConversation.entries) :
          /\ currentConversation.entries[e].response.imageResolutions = <<"1K", "4K">>
          /\ Len(currentConversation.entries[e].response.imageFilenames) = 2
    /\ \E q \in RegenIds : regens[q].pc = "done"

\* a click on Upscale for an image generated at "4K" has returned at once
C29_DeclinedWitness ==
    \E q \in RegenIds : regens[q].pc = "done" /\ regens[q].kind = "declined"

\* C30: no persisted conversation.json ever contains an entry whose
\* imageFilenames holds the "generating" sentinel, whatever regenerate saves,
\* enrichment saves and later generations run while a generation is in flight.
C30_NoSentinelPersisted ==
    \A t \in Times : ~HasPlaceholder(conversationJson[t])

\* the filenames of the entries of a record, in order
RECURSIVE FilenameSlots(_)
FilenameSlots(es) ==
    IF es = <<>> THEN <<>>
    ELSE Head(es).response.imageFilenames \o FilenameSlots(Tail(es))

\* C31: saveImage calls on one conversation whose steps interleave (a regenerate
\* during a generation) never return the same index, so no image index is in
\* more than one filename slot of the entries of a persisted record.
C31_NoIndexInTwoSlots ==
    \A t \in Times :
        (conversationJson[t] # NULL /\ conversationJson[t] # CORRUPT) =>
            LET slots == FilenameSlots(conversationJson[t].entries)
            IN \A i, j \in 1..Len(slots) :
                  (i # j /\ slots[i] # GENERATING) => slots[i] # slots[j]

\* C32: the images and the final entry of a generation, and the image and the
\* save of a regeneration, go to the conversation that was current when the
\* request was submitted, also when another conversation was opened or a new
\* one started while the remote call was in flight: no other conversation's
\* directory or record is written.
C32_StoredUnderSubmittedConversation ==
    [][/\ \A r \in GenIds :
            (gens[r].pc \in {"remote", "scan", "write"} /\ gens'[r].pc # gens[r].pc) =>
                \A t \in Times \ {gens[r].submitTs} :
                    /\ imageFiles'[t] = imageFiles[t]
                    /\ conversationJson'[t] = conversationJson[t]
       /\ \A q \in RegenIds :
            (regens[q].pc = "write" /\ regens'[q].pc = "done") =>
                \A t \in Times \ {regens[q].clickTs} :
                    /\ imageFiles'[t] = imageFiles[t]
                    /\ conversationJson'[t] = conversationJson[t]]_vars

\* C33: the title generated from the first prompt of a conversation is written
\* to the summary of that conversation only: when the user has opened another
\* conversation before the title call returns, the summary of that other
\* conversation is left as it was.
C33_TitleWrittenToOwnSummaryOnly ==
    [][\A r \in GenIds :
          (gens[r].titlePc = "pending" /\ gens'[r].titlePc = "done") =>
              \A t \in Times \ {gens[r].taskTs} : summaryJson'[t] = summaryJson[t]]_vars

\* C34: every filename other than the sentinel in an entry of a persisted record
\* names an image file that exists in the images directory of that conversation,
\* after any sequence of generations, regenerations and enrichment saves.
C34_FilenamesNameExistingImages ==
    \A t \in Times :
        (conversationJson[t] # NULL /\ conversationJson[t] # CORRUPT) =>
            LET slots == FilenameSlots(conversationJson[t].entries)
            IN \A i \in 1..Len(slots) :
                  slots[i] # GENERATING =>
                      /\ t \in convDirs
                      /\ \E index \in imageFiles[t] : FileName(index) = slots[i]

\* a persisted entry names a generated and a regenerated image and carries the
\* usage payload of its turn
C34_Witness ==
    \E t \in Times :
        /\ conversationJson[t] # NULL
        /\ \E k \in 1..Len(conversationJson[t].entries) :
              /\ Len(conversationJson[t].entries[k].response.imageFilenames) = 2
              /\ conversationJson[t].entries[k].response.generationData = "usage"
        /\ \E q \in RegenIds : regens[q].pc = "done"

\* C35: the createConversation step of a submission adds no directory when the
\* conversation already has entries, and otherwise adds at most the directory
\* named by the timestamp of the conversation the prompt was submitted in.
C35_ExistingConversationMakesNoDirectory ==
    [][\A r \in GenIds :
          (gens[r].pc = "creating" /\ gens'[r].pc # "creating") =>
              /\ convDirs' \subseteq convDirs \cup {gens[r].submitTs}
              /\ gens[r].lenBefore > 0 => convDirs' = convDirs]_vars

\* C36: at the step of a successful generation that returns isGenerating to
\* false, the persisted record already holds the final entry with the saved
\* filenames; and the summary tasks and the usage polling of a turn start only at
\* that step, after saveConversation has completed.
C36_EntryPersistedBeforeFlagClears ==
    [][\A r \in GenIds :
          /\ (gens[r].pc = "saved" /\ gens'[r].pc = "done" /\ gens'[r].outcome = "success") =>
                LET record == conversationJson[gens[r].savedTs]
                IN /\ isGenerating /\ ~isGenerating'
                   /\ record # NULL
                   /\ gens[r].entryIdx \in 1..Len(record.entries)
                   /\ ~IsPlaceholder(record.entries[gens[r].entryIdx])
                   /\ record.entries[gens[r].entryIdx].response.imageFilenames =
                         gens[r].filenames
          /\ (\/ gens[r].initPc = "none" /\ gens'[r].initPc = "pending"
              \/ gens[r].titlePc = "none" /\ gens'[r].titlePc = "pending"
              \/ gens[r].updPc = "none" /\ gens'[r].updPc = "pending"
              \/ gens[r].enrichPc = "none" /\ gens'[r].enrichPc = "polling") =>
                /\ gens[r].pc = "saved"
                /\ ~IsPlaceholder(conversationJson[gens[r].savedTs]
                                     .entries[gens[r].entryIdx])]_vars

\* a generation has succeeded with one image: the flag is clear, its tasks have
\* started and the record holds its entry
C36_Witness ==
    \E r \in GenIds :
        /\ gens[r].outcome = "success" /\ gens[r].saved = 1
        /\ gens[r].enrichPc = "polling" /\ gens[r].initPc = "pending"
        /\ ~isGenerating
        /\ conversationJson[gens[r].savedTs] # NULL
        /\ Len(conversationJson[gens[r].savedTs].entries[gens[r].entryIdx]
                 .response.imageFilenames) = 1

\* C37: the message list sent to the remote API for a submission is the system
\* prompt, the messages of the turns the conversation had before the submission,
\* and the current prompt once, as the last user message; nothing of earlier
\* failed submissions is in it.
C37_MessagesArePriorTurnsThenPrompt ==
    [][\A r \in GenIds :
          (gens[r].pc = "creating" /\ gens'[r].pc = "remote") =>
              gens'[r].messages =
                  <<[role |-> "system", content |-> SYSTEM_PROMPT]>> \o
                  HistoryOf(currentConversation.entries) \o
                  <<[role |-> "user", content |-> gens[r].prompt]>>]_vars

====
